---- MODULE Spec2Model ----
(***************************************************************************)
(* Amazon order synchronisation of ecommerce_integrations:                 *)
(*   - the per-order document orchestration of AmazonRepository            *)
(*     (Sales Order -> Delivery Note -> Sales Invoice -> Payment Entry),   *)
(*   - the retry wrapper call_sp_api_method,                               *)
(*   - the settlement scan check_amazon_settlement_available.              *)
(* Source: src/ecommerce_integrations/amazon/doctype/                      *)
(*         amazon_sp_api_settings/amazon_repository.py                     *)
(***************************************************************************)
EXTENDS Integers, Sequences, FiniteSets, TLC

\* ------------------------------------------------------------------ bounds
\* Cap on the number of Delivery Notes, Sales Invoices and Payment Entries
\* in the ERP store, taken together.
MaxDocs == 4
\* Largest configured max_retry_limit.
MaxRetry == 3
\* Most lines of financial events served in one settlement scan.
MaxLines == 3
\* Most pages served for one paginated listing.
MaxPages == 2
\* OrderItems lines in a get_order_items payload
MaxItems == 2
\* calls of update_sales_order on one Sales Order
MaxUpdates == 2
\* rows of amazon_fields_map
MaxMappings == 2
\* ItemChargeList lines of an order's financial events
MaxCharges == 2

\* ------------------------------------------------------------- vocabulary
\* Python's None, and the "no document" answer of frappe.db.get_value: a
\* Delivery Note, Sales Invoice or Payment Entry is named by its position in
\* its table, a Sales Order by <<amazon_order_id, position>>.
None == "None"
NoDoc == 0
NoSO == <<>>

OrderIds == {"A1", "A2"}

order_statuses ==
    {"PendingAvailability", "Pending", "Unshipped", "PartiallyShipped",
     "Shipped", "InvoiceUnconfirmed", "Canceled", "Unfulfillable"}

\* Settlement (financial event group) identifiers of the marketplace.
SettlementIds == {"G1", "G2"}

\* What the ERP does with a new document: insert and submit succeed, or the
\* document is refused (insert raises).
ErpOutcomes == {"ok", "insert_fails"}
ErpInputs == [dn : ErpOutcomes, si : ErpOutcomes]

\* What check_amazon_settlement_available can hand to the orchestration:
\* (0, None), (total > 0, group id), (0, None) after a swallowed retry
\* exhaustion, or an exception (retry exhaustion on a next-token page, or a
\* plain error such as a missing amount key).
FinOutcomes ==
    {[payout |-> 0, sid |-> None, exc |-> "none"],
     [payout |-> 0, sid |-> None, exc |-> "swallowed"],
     [payout |-> 0, sid |-> None, exc |-> "exhausted"],
     [payout |-> 0, sid |-> None, exc |-> "error"]}
    \cup {[payout |-> 85, sid |-> g, exc |-> "none"] : g \in SettlementIds}

VARIABLES
    \* ERP document store: so[scan_order_id] is the sequence of Sales Orders with
    \* that amazon_order_id; dn, si, pe are the Delivery Note, Sales Invoice
    \* and Payment Entry tables
    so, dn, si, pe,
    \* Amazon SP API Settings
    enable_sync, max_retry_limit,
    \* one call of call_sp_api_method: where it stands (rpc), its errors
    \* dict (insertion-ordered <<code, description>> pairs), what it returned
    \* or threw, and how often it saved the settings
    rpc, errors, result, msg, saves,
    \* observation of the call: the outcome of each invocation of the remote
    \* operation, in order, and enable_sync as the call found it
    history, sync_at_start,
    \* one call of check_amazon_settlement_available(scan_order_id): where it
    \* stands (spc), the groups list and its NextToken, the index of the group
    \* being read, the NextToken of its events page, total and found, and
    \* what the call returned
    spc, scan_order_id, groups, next_group_token, gi, next_token, total, found, sret,
    \* the marketplace's side of the call: event pages served for the group
    \* and lines served in the call
    npages, nlines,
    \* observation of the call: per category the sum of the amounts of the
    \* current group's lines that belong to scan_order_id, the number of its events
    \* that do, the groups whose events were requested, the groups whose
    \* lines netted to a positive amount, the call that ran out of retries
    \* and the marketplace calls made after it
    matched, matching_events, fetched, positives, exhausted_at, late_calls,
    \* one call of get_order_items: the OrderItems of the payload, the Items
    \* the ERP knows, the create_item_if_not_exists setting, where the call
    \* stands (ipc) and what it returned (final_items) or that it raised
    order_items, known_items, create_item_if_not_exists, ipc, final_items,
    \* the Sales Orders of one order id with their item rows (at most one is
    \* ever inserted), and the number of updates run on them
    so_docs, updates,
    \* one call of get_orders: where it stands (gpc), the orders of the page
    \* being processed (order ids; the status of an order is read when it is
    \* processed), the pages still behind NextToken, processed_orders, and
    \* the order whose processing raised
    gpc, orders_list, more_pages, processed_orders, failed_order,
    \* two sync runs over the same order, one statement at a time: where
    \* each stands (pc), the order status it was given, its so_name and
    \* si_name, the settlement it was handed, whether it is in the pass made
    \* by create_sales_order (1) or by get_orders (2), and the steps its
    \* current pass has taken
    pc, run_status, run_so, run_si, run_fin, run_pass, steps,
    \* one call of get_item_code: the order line, the amazon_fields_map of
    \* the settings, the Item table before and after the call, the Ecommerce
    \* Item cross-references, where the call stands (lpc) and its outcome
    order_item, amazon_fields_map, items_before, item_table, ecommerce_items,
    lpc, item_lookup,
    \* the taxes of one new Sales Order: the item rows it is built from, the
    \* charges and fees of the order's financial events, whether the
    \* taxes_charges account is set, where the step stands (tpc) and the tax
    \* lines appended to the Sales Order
    tax_items, fin_charges, fin_fees, taxes_charges, tpc, so_taxes,
    \* one call of create_payment_entry_from_si as far as the amounts go: what
    \* the call was given and read (pay_input), where it stands (ppc) and the
    \* Payment Entries it inserted
    pay_input, ppc, payment_entry,
    \* pagination, with tokens: the number of pages the marketplace holds of
    \* each listing (market), where get_orders or
    \* check_amazon_settlement_available stands (qpc), the page of orders
    \* being processed, the NextToken each loop holds (0: none), the calls
    \* made so far (requests), the groups list and the index of the group
    \* being read
    market, qpc, o_page, o_token, i_token, g_token, e_token, requests, acc_groups,
    group_idx

docvars == <<so, dn, si, pe>>
retryvars == <<max_retry_limit, rpc, errors, result, msg, saves, history, sync_at_start>>
settlevars == <<spc, scan_order_id, groups, next_group_token, gi, next_token, total, found,
                sret, npages, nlines, matched, matching_events, fetched, positives, exhausted_at,
                late_calls>>
itemvars == <<order_items, known_items, create_item_if_not_exists, ipc, final_items>>
updatevars == <<so_docs, updates>>
pagevars == <<gpc, orders_list, more_pages, processed_orders, failed_order>>
runvars == <<pc, run_status, run_so, run_si, run_fin, run_pass, steps>>
lookupvars == <<order_item, amazon_fields_map, items_before, item_table, ecommerce_items,
                lpc, item_lookup>>
taxvars == <<tax_items, fin_charges, fin_fees, taxes_charges, tpc, so_taxes>>
payvars == <<pay_input, ppc, payment_entry>>
pagingvars == <<market, qpc, o_page, o_token, i_token, g_token, e_token, requests,
                acc_groups, group_idx>>
morevars == <<taxvars, payvars, pagingvars>>
basevars == <<docvars, enable_sync, retryvars, settlevars, itemvars, updatevars, pagevars,
              runvars, lookupvars>>
othervars == <<itemvars, updatevars, pagevars, runvars, lookupvars, morevars>>
vars == <<docvars, enable_sync, retryvars, settlevars, othervars>>

Min(S) == CHOOSE x \in S : \A y \in S : x <= y

\* ---------------------------------------------------------- ERP store

\* frappe.db.get_value("Sales Order", {"amazon_order_id": order_id}, "name")
get_value_sales_order(SO, order_id) ==
    IF SO[order_id] = <<>> THEN NoSO ELSE <<order_id, 1>>

\* A lookup that only sees drafts (filter docstatus = 0 instead of < 2).
get_value_against_so_drafts_only(docs, so_name) ==
    LET hits == {i \in 1..Len(docs) :
                    /\ docs[i].custom_against_sales_order = so_name
                    /\ docs[i].docstatus = 0}
    IN  IF hits = {} THEN NoDoc ELSE Min(hits)

\* frappe.db.get_value(doctype, {"custom_against_sales_order": so_name,
\*                               "docstatus": ["<", 2]}, "name")
get_value_against_so(docs, so_name) ==
    LET hits == {i \in 1..Len(docs) :
                    /\ docs[i].custom_against_sales_order = so_name
                    /\ docs[i].docstatus < 2}
    IN  IF hits = {} THEN NoDoc ELSE Min(hits)

\* frappe.db.get_value("Payment Entry", {"custom_amazon_settlement_id":
\*                      settlement_id, "docstatus": ["<", 2]}, "name")
get_value_payment_entry(PE, settlement_id) ==
    LET hits == {i \in 1..Len(PE) :
                    /\ PE[i].custom_amazon_settlement_id = settlement_id
                    /\ PE[i].docstatus < 2}
    IN  IF hits = {} THEN NoDoc ELSE Min(hits)

\* doc.insert() followed by doc.submit(), under the ERP's answer `out`.
insert_and_submit(docs, doc, out) ==
    IF out = "ok" THEN Append(docs, [doc EXCEPT !.docstatus = 1]) ELSE docs

\* doc.save(); if doc.docstatus == 0: doc.submit()  (inside try/except)
save_and_submit(docs, name, out) ==
    IF out = "ok" /\ docs[name].docstatus = 0
    THEN [docs EXCEPT ![name].docstatus = 1]
    ELSE docs

\* The store as one value, so that handlers compose.
DB == [so |-> so, dn |-> dn, si |-> si, pe |-> pe, enable_sync |-> enable_sync]

\* ------------------------------------------------------ document creation

\* create_delivery_note_from_so: lookup, else new Delivery Note from the
\* Sales Order, insert + submit; any exception is logged and None returned.
create_delivery_note_from_so(db, so_name, out) ==
    LET existing == get_value_against_so(db.dn, so_name)
        docs == insert_and_submit(db.dn,
                    [custom_against_sales_order |-> so_name, docstatus |-> 0], out)
    IN  IF existing # NoDoc
        THEN [db |-> db, name |-> existing]
        ELSE [db |-> [db EXCEPT !.dn = docs],
              name |-> IF out = "ok" THEN Len(docs) ELSE NoDoc]

\* create_sales_invoice_from_so: the same for the Sales Invoice; a new
\* invoice carries no settlement id.
create_sales_invoice_from_so(db, so_name, out) ==
    LET existing == get_value_against_so(db.si, so_name)
        docs == insert_and_submit(db.si,
                    [custom_against_sales_order |-> so_name, docstatus |-> 0,
                     custom_amazon_settlement_id |-> None], out)
    IN  IF existing # NoDoc
        THEN [db |-> db, name |-> existing]
        ELSE [db |-> [db EXCEPT !.si = docs],
              name |-> IF out = "ok" THEN Len(docs) ELSE NoDoc]

\* create_payment_entry_from_si without the closing si.save() of the
\* settlement id.
create_payment_entry_from_si_unmarked(db, si_name, payout_usd, settlement_id, payout_acct) ==
    IF db.si[si_name].custom_amazon_settlement_id = settlement_id
    THEN [db |-> db, name |-> NoDoc, raised |-> FALSE]
    ELSE IF ~payout_acct
    THEN [db |-> db, name |-> NoDoc, raised |-> TRUE]
    ELSE [db |-> [db EXCEPT
                    !.pe = Append(@, [reference_no |-> si_name,
                                      custom_amazon_settlement_id |-> settlement_id,
                                      paid_amount |-> payout_usd,
                                      docstatus |-> 1])],
          name |-> Len(db.pe) + 1,
          raised |-> FALSE]

\* create_payment_entry_from_si(si_name, payout_usd, settlement_id):
\*   returns None when the invoice already records settlement_id;
\*   throws when no payout account is configured;
\*   else inserts and submits the Payment Entry and then records
\*   settlement_id on the invoice (si.save).
create_payment_entry_from_si(db, si_name, payout_usd, settlement_id, payout_acct) ==
    IF db.si[si_name].custom_amazon_settlement_id = settlement_id
    THEN [db |-> db, name |-> NoDoc, raised |-> FALSE]
    ELSE IF ~payout_acct
    THEN [db |-> db, name |-> NoDoc, raised |-> TRUE]
    ELSE [db |-> [db EXCEPT
                    !.pe = Append(@, [reference_no |-> si_name,
                                      custom_amazon_settlement_id |-> settlement_id,
                                      paid_amount |-> payout_usd,
                                      docstatus |-> 1]),
                    !.si[si_name].custom_amazon_settlement_id = settlement_id],
          name |-> Len(db.pe) + 1,
          raised |-> FALSE]

\* update_delivery_note / update_sales_invoice: save the existing document
\* and submit it when it is still a draft; failures are logged, not raised.
update_delivery_note(db, dn_name, out) ==
    [db EXCEPT !.dn = save_and_submit(@, dn_name, out)]

update_sales_invoice(db, si_name, out) ==
    [db EXCEPT !.si = save_and_submit(@, si_name, out)]

\* handle_order_cancellation(order_id, so_name): cancels the submitted
\* Delivery Notes and Sales Invoices made against the Sales Order and the
\* Payment Entries that reference those invoices; creates nothing.
handle_order_cancellation(db, order_id, so_name) ==
    LET cancel(docs) ==
            [i \in 1..Len(docs) |->
                IF docs[i].custom_against_sales_order = so_name /\ docs[i].docstatus = 1
                THEN [docs[i] EXCEPT !.docstatus = 2] ELSE docs[i]]
        cancel_pe(docs) ==
            [i \in 1..Len(docs) |->
                IF /\ db.si[docs[i].reference_no].custom_against_sales_order = so_name
                   /\ docs[i].docstatus = 1
                THEN [docs[i] EXCEPT !.docstatus = 2] ELSE docs[i]]
    IN  [db EXCEPT !.dn = cancel(@), !.si = cancel(@), !.pe = cancel_pe(@)]

\* process_refunds_and_returns(order_id): leaves the Sales Order, Delivery
\* Note, Sales Invoice and Payment Entry of the order as they are.
process_refunds_and_returns(db, order_id) == db

\* ------------------------------------------------------- orchestration

\* "Delivery Note Logic" that runs for Shipped only.
delivery_note_logic_shipped_only(db, status, so_name, out) ==
    IF status = "Shipped"
    THEN LET existing_dn == get_value_against_so(db.dn, so_name)
         IN  IF existing_dn # NoDoc
             THEN update_delivery_note(db, existing_dn, out)
             ELSE create_delivery_note_from_so(db, so_name, out).db
    ELSE db

\* "Delivery Note Logic" that also runs for InvoiceUnconfirmed.
delivery_note_logic_invoice_unconfirmed(db, status, so_name, out) ==
    IF status \in {"Shipped", "PartiallyShipped", "InvoiceUnconfirmed"}
    THEN LET existing_dn == get_value_against_so(db.dn, so_name)
         IN  IF existing_dn # NoDoc
             THEN update_delivery_note(db, existing_dn, out)
             ELSE create_delivery_note_from_so(db, so_name, out).db
    ELSE db

\* "Delivery Note Logic" of process_order_documents_based_on_status
delivery_note_logic(db, status, so_name, out) ==
    IF status \in {"Shipped", "PartiallyShipped"}
    THEN LET existing_dn == get_value_against_so(db.dn, so_name)
         IN  IF existing_dn # NoDoc
             THEN update_delivery_note(db, existing_dn, out)
             ELSE create_delivery_note_from_so(db, so_name, out).db
    ELSE db

\* "Check for settlement" that treats a payout that is not positive as an
\* error.
settlement_logic_raises_unsettled(db, si_name, fin, payout_acct) ==
    IF fin.exc # "none" \/ fin.payout <= 0
    THEN [db |-> db, raised |-> TRUE]
    ELSE LET r == create_payment_entry_from_si(db, si_name, fin.payout,
                                               fin.sid, payout_acct)
         IN  [db |-> r.db, raised |-> r.raised]

\* "Check for settlement" that clears enable_sync on every failure of the
\* lookup, not only when a call ran out of retries.
settlement_logic_disables_on_error(db, si_name, fin, payout_acct) ==
    LET d0 == IF fin.exc # "none" THEN [db EXCEPT !.enable_sync = 0] ELSE db
    IN  IF fin.exc \in {"exhausted", "error"}
        THEN [db |-> d0, raised |-> TRUE]
        ELSE IF fin.payout > 0 /\ fin.sid # None
        THEN LET existing_pe == get_value_payment_entry(d0.pe, fin.sid)
                 r == create_payment_entry_from_si(d0, si_name, fin.payout,
                                                   fin.sid, payout_acct)
             IN  IF existing_pe = NoDoc
                 THEN [db |-> r.db, raised |-> r.raised]
                 ELSE [db |-> d0, raised |-> FALSE]
        ELSE [db |-> d0, raised |-> FALSE]

\* "Check for settlement" of process_order_documents_based_on_status, run
\* for a freshly created invoice si_name; fin is what
\* check_amazon_settlement_available does on this call.
settlement_logic(db, si_name, fin, payout_acct) ==
    LET d0 == IF fin.exc \in {"swallowed", "exhausted"}
              THEN [db EXCEPT !.enable_sync = 0] ELSE db
    IN  IF fin.exc \in {"exhausted", "error"}
        THEN [db |-> d0, raised |-> TRUE]
        ELSE IF fin.payout > 0 /\ fin.sid # None
        THEN LET existing_pe == get_value_payment_entry(d0.pe, fin.sid)
                 r == create_payment_entry_from_si(d0, si_name, fin.payout,
                                                   fin.sid, payout_acct)
             IN  IF existing_pe = NoDoc
                 THEN [db |-> r.db, raised |-> r.raised]
                 ELSE [db |-> d0, raised |-> FALSE]
        ELSE [db |-> d0, raised |-> FALSE]

\* "Sales Invoice Logic" that inserts a new invoice without looking one up.
sales_invoice_logic_no_lookup(db, status, so_name, out, fin, payout_acct) ==
    IF status \in {"Shipped", "InvoiceUnconfirmed", "PartiallyShipped"}
    THEN LET docs == insert_and_submit(db.si,
                        [custom_against_sales_order |-> so_name, docstatus |-> 0,
                         custom_amazon_settlement_id |-> None], out)
         IN  [db |-> [db EXCEPT !.si = docs], raised |-> FALSE]
    ELSE [db |-> db, raised |-> FALSE]

\* "Sales Invoice Logic" of process_order_documents_based_on_status
sales_invoice_logic(db, status, so_name, out, fin, payout_acct) ==
    IF status \in {"Shipped", "InvoiceUnconfirmed", "PartiallyShipped"}
    THEN LET existing_si == get_value_against_so(db.si, so_name)
             r == create_sales_invoice_from_so(db, so_name, out)
         IN  IF existing_si # NoDoc
             THEN [db |-> update_sales_invoice(db, existing_si, out), raised |-> FALSE]
             ELSE IF r.name # NoDoc
             THEN settlement_logic(r.db, r.name, fin, payout_acct)
             ELSE [db |-> r.db, raised |-> FALSE]
    ELSE [db |-> db, raised |-> FALSE]

\* The orchestration with the cancellation test spelt "Cancelled": a
\* Canceled order falls through to the document logic.
process_order_documents_misspelt(db, amazon_order, so_name, erp, fin, payout_acct) ==
    IF amazon_order.OrderStatus = "Cancelled"
    THEN [db |-> handle_order_cancellation(db, amazon_order.AmazonOrderId, so_name),
          raised |-> FALSE]
    ELSE LET d0 == process_refunds_and_returns(db, amazon_order.AmazonOrderId)
             d1 == delivery_note_logic(d0, amazon_order.OrderStatus, so_name, erp.dn)
         IN  sales_invoice_logic(d1, amazon_order.OrderStatus, so_name, erp.si,
                                 fin, payout_acct)

\* process_order_documents_based_on_status(amazon_order, so_name)
process_order_documents_based_on_status(db, amazon_order, so_name, erp, fin, payout_acct) ==
    IF amazon_order.OrderStatus = "Canceled"
    THEN [db |-> handle_order_cancellation(db, amazon_order.AmazonOrderId, so_name),
          raised |-> FALSE]
    ELSE LET d0 == process_refunds_and_returns(db, amazon_order.AmazonOrderId)
             d1 == delivery_note_logic(d0, amazon_order.OrderStatus, so_name, erp.dn)
         IN  sales_invoice_logic(d1, amazon_order.OrderStatus, so_name, erp.si,
                                 fin, payout_acct)

\* create_sales_order(order): returns the existing Sales Order of the order
\* id if there is one, None when the order has no items; else inserts and
\* submits a new Sales Order and runs the orchestration on it.
create_sales_order(db, order, has_items, erp, fin, payout_acct) ==
    LET existing == get_value_sales_order(db.so, order.AmazonOrderId)
        order_id == order.AmazonOrderId
        d1 == [db EXCEPT !.so[order_id] =
                            Append(@, [amazon_order_id |-> order_id, docstatus |-> 1])]
        so_name == <<order_id, Len(d1.so[order_id])>>
        r == process_order_documents_based_on_status(d1, order, so_name,
                                                     erp, fin, payout_acct)
    IN  IF existing # NoSO
        THEN [db |-> db, name |-> existing, raised |-> FALSE]
        ELSE IF ~has_items
        THEN [db |-> db, name |-> NoSO, raised |-> FALSE]
        ELSE [db |-> r.db, name |-> IF r.raised THEN NoSO ELSE so_name,
              raised |-> r.raised]

\* update_sales_order(so_name, amazon_order): saves the Sales Order and
\* submits it when it is a draft; failures are logged, not raised.
update_sales_order(db, so_name, amazon_order) ==
    [db EXCEPT !.so[so_name[1]] = save_and_submit(@, so_name[2], "ok")]

\* Body of the order loop of get_orders, for one order of the page.
get_orders_one(db, order, has_items, erp, fin, payout_acct) ==
    LET existing_so == get_value_sales_order(db.so, order.AmazonOrderId)
        upd == update_sales_order(db, existing_so, order)
        c == create_sales_order(db, order, has_items, erp, fin, payout_acct)
        d1 == IF existing_so # NoSO THEN upd ELSE c.db
        so_name == IF existing_so # NoSO THEN existing_so ELSE c.name
    IN  IF existing_so = NoSO /\ c.raised
        THEN [db |-> c.db, raised |-> TRUE]
        ELSE IF so_name # NoSO
        THEN process_order_documents_based_on_status(d1, order, so_name,
                                                     erp, fin, payout_acct)
        ELSE [db |-> d1, raised |-> FALSE]

\* ------------------------------------------------------------- actions

\* The store after a handler, kept within the model's document cap.
Commit(d) ==
    /\ Len(d.dn) + Len(d.si) + Len(d.pe) <= MaxDocs
    /\ so' = d.so /\ dn' = d.dn /\ si' = d.si /\ pe' = d.pe
    /\ enable_sync' = d.enable_sync
    /\ UNCHANGED <<retryvars, settlevars, othervars>>

\* The answers of the environment that a call consults. An answer the call
\* never reads on this store, status and order is held at one value: `runs`
\* says whether the orchestration runs at all in the call.
ItemAnswers(db, o) ==
    IF get_value_sales_order(db.so, o) = NoSO THEN BOOLEAN ELSE {TRUE}

DnAnswers(db, s, o, runs) ==
    IF /\ runs
       /\ s \in {"Shipped", "PartiallyShipped"}
       /\ \/ get_value_sales_order(db.so, o) = NoSO
          \/ get_value_against_so(db.dn, get_value_sales_order(db.so, o)) = NoDoc
    THEN ErpOutcomes ELSE {"ok"}

SiAnswers(db, s, o, runs) ==
    IF /\ runs
       /\ s \in {"Shipped", "InvoiceUnconfirmed", "PartiallyShipped"}
       /\ \/ get_value_sales_order(db.so, o) = NoSO
          \/ get_value_against_so(db.si, get_value_sales_order(db.so, o)) = NoDoc
    THEN ErpOutcomes ELSE {"ok"}

FinAnswers(db, s, o, runs, si_out) ==
    IF SiAnswers(db, s, o, runs) = ErpOutcomes /\ si_out = "ok"
    THEN FinOutcomes ELSE {[payout |-> 0, sid |-> None, exc |-> "none"]}

\* Whether "Amazon Payout Account" is set in the settings when the Payment
\* Entry is built.
AcctAnswers(fin) ==
    IF fin.exc = "none" /\ fin.payout > 0 THEN BOOLEAN ELSE {TRUE}

\* One order of a get_orders page.
GetOrdersOne ==
    \E o \in OrderIds, s \in order_statuses :
    \E has_items \in ItemAnswers(DB, o) :
    \E dn_out \in DnAnswers(DB, s, o, has_items),
       si_out \in SiAnswers(DB, s, o, has_items) :
    \E fin \in FinAnswers(DB, s, o, has_items, si_out) :
    \E amazon_payout_account \in AcctAnswers(fin) :
        LET order == [AmazonOrderId |-> o, OrderStatus |-> s]
            r == get_orders_one(DB, order, has_items, [dn |-> dn_out, si |-> si_out],
                                fin, amazon_payout_account)
        IN  Commit(r.db)

\* A call of create_sales_order(order).
CreateSalesOrder ==
    \E o \in OrderIds, s \in order_statuses :
    \E has_items \in ItemAnswers(DB, o) :
    LET runs == has_items /\ get_value_sales_order(so, o) = NoSO IN
    \E dn_out \in DnAnswers(DB, s, o, runs), si_out \in SiAnswers(DB, s, o, runs) :
    \E fin \in FinAnswers(DB, s, o, runs, si_out) :
    \E amazon_payout_account \in AcctAnswers(fin) :
        LET order == [AmazonOrderId |-> o, OrderStatus |-> s]
            r == create_sales_order(DB, order, has_items, [dn |-> dn_out, si |-> si_out],
                                    fin, amazon_payout_account)
        IN  Commit(r.db)

\* A call of process_order_documents_based_on_status(order, so_name) for an
\* existing Sales Order.
ProcessOrderDocuments ==
    \E o \in OrderIds, s \in order_statuses :
    \E i \in 1..Len(so[o]),
       dn_out \in DnAnswers(DB, s, o, TRUE), si_out \in SiAnswers(DB, s, o, TRUE) :
    \E fin \in FinAnswers(DB, s, o, TRUE, si_out) :
    \E amazon_payout_account \in AcctAnswers(fin) :
        LET order == [AmazonOrderId |-> o, OrderStatus |-> s]
            r == process_order_documents_based_on_status(
                    DB, order, <<o, i>>, [dn |-> dn_out, si |-> si_out], fin,
                    amazon_payout_account)
        IN  Commit(r.db)

\* A direct call of create_payment_entry_from_si on an existing invoice.
CreatePaymentEntry ==
    \E si_name \in 1..Len(si), sid \in SettlementIds, amazon_payout_account \in BOOLEAN :
        LET r == create_payment_entry_from_si(DB, si_name, 85, sid,
                                              amazon_payout_account)
        IN  Commit(r.db)

\* --------------------------------------------------- call_sp_api_method

\* SPAPIError.error and SPAPIError.error_description of a failed invocation.
ErrorCodes == {"QuotaExceeded", "InvalidInput"}
ErrorDescriptions == {"throttled", "try later"}
\* The "payload" of a successful response; result.get("payload") may be None.
Payloads == {"orders", "events", None}

\* The outcomes of one invocation sp_api_method(**kwargs).
Responses ==
    [kind : {"ok"}, payload : Payloads]
    \cup [kind : {"SPAPIError"}, error : ErrorCodes, error_description : ErrorDescriptions]
    \cup [kind : {"Exception"}]

\* max_retries + 1 in place of max_retries.
max_retries_one_more(limit) == IF limit = 0 THEN 2 ELSE limit + 1

\* max_retries = self.amz_setting.max_retry_limit or 1; an unset limit reads
\* as 0 (or None), which `or` treats alike.
max_retries(limit) == IF limit = 0 THEN 1 ELSE limit

\* A dict assignment that keeps the value of a key already present.
dict_set_keep_first(d, k, v) ==
    IF \E i \in 1..Len(d) : d[i][1] = k THEN d ELSE Append(d, <<k, v>>)

\* errors[k] = v on a Python dict: a present key keeps its position and takes
\* the new value, a new key goes last.
dict_set(d, k, v) ==
    IF \E i \in 1..Len(d) : d[i][1] = k
    THEN [i \in 1..Len(d) |-> IF d[i][1] = k THEN <<k, v>> ELSE d[i]]
    ELSE Append(d, <<k, v>>)

\* "<br>".join(lines)
RECURSIVE join_br(_)
join_br(lines) ==
    IF lines = <<>> THEN ""
    ELSE IF Len(lines) = 1 THEN lines[1]
    ELSE lines[1] \o "<br>" \o join_br(Tail(lines))

\* "<br>".join([f"{k}: {v}" for k, v in errors.items()])
format_errors(d) == join_br([i \in 1..Len(d) |-> d[i][1] \o ": " \o d[i][2]])

\* call_sp_api_method is entered with the settings as they are.
CallStart ==
    /\ rpc \in {"idle", "returned", "thrown", "propagated"}
    /\ \E limit \in 0..MaxRetry : max_retry_limit' = limit
    /\ rpc' = "loop"
    /\ errors' = <<>> /\ result' = None /\ msg' = "" /\ saves' = 0
    /\ history' = <<>>
    /\ sync_at_start' = enable_sync
    /\ UNCHANGED <<docvars, settlevars, othervars, enable_sync>>

\* An iteration of the for loop whose invocation succeeds: return the payload.
AttemptOk ==
    /\ rpc = "loop" /\ Len(history) < max_retries(max_retry_limit)
    /\ \E payload \in Payloads :
        /\ history' = Append(history, [kind |-> "ok", payload |-> payload])
        /\ result' = payload
    /\ rpc' = "returned"
    /\ UNCHANGED <<docvars, settlevars, othervars, enable_sync, max_retry_limit, errors, msg, saves, sync_at_start>>

\* An iteration whose invocation raises SPAPIError: record it, sleep, go on.
AttemptSPAPIError ==
    /\ rpc = "loop" /\ Len(history) < max_retries(max_retry_limit)
    /\ \E e \in ErrorCodes, d \in ErrorDescriptions :
        /\ history' = Append(history, [kind |-> "SPAPIError", error |-> e,
                                       error_description |-> d])
        /\ errors' = dict_set(errors, e, d)
    /\ UNCHANGED <<docvars, settlevars, othervars, enable_sync, max_retry_limit, rpc, result, msg, saves,
                   sync_at_start>>

\* An iteration whose invocation raises anything else: it leaves the call.
AttemptOtherError ==
    /\ rpc = "loop" /\ Len(history) < max_retries(max_retry_limit)
    /\ history' = Append(history, [kind |-> "Exception"])
    /\ rpc' = "propagated"
    /\ UNCHANGED <<docvars, settlevars, othervars, enable_sync, max_retry_limit, errors, result, msg, saves,
                   sync_at_start>>

\* The loop is over: enable_sync = 0 and amz_setting.save().
DisableSync ==
    /\ rpc = "loop" /\ Len(history) >= max_retries(max_retry_limit)
    /\ enable_sync' = 0
    /\ saves' = saves + 1
    /\ rpc' = "disabled"
    /\ UNCHANGED <<docvars, settlevars, othervars, max_retry_limit, errors, result, msg, history, sync_at_start>>

\* frappe.throw with the errors dict, one "code: description" per key.
Throw ==
    /\ rpc = "disabled"
    /\ msg' = format_errors(errors)
    /\ rpc' = "thrown"
    /\ UNCHANGED <<docvars, settlevars, othervars, enable_sync, max_retry_limit, errors, result, saves, history,
                   sync_at_start>>

\* Between calls the settings are switched back on by hand.
EnableSync ==
    /\ rpc \in {"returned", "thrown", "propagated"}
    /\ enable_sync = 0
    /\ enable_sync' = 1
    /\ rpc' = "idle"
    /\ UNCHANGED <<docvars, settlevars, othervars, max_retry_limit, errors, result, msg, saves, history,
                   sync_at_start>>

\* ------------------------------------- check_amazon_settlement_available

\* The settlement groups of the marketplace, in listing order.
GroupIds == <<"G1", "G2">>

\* The lists of a FinancialEvents page whose amounts are folded into total.
Categories ==
    {"ItemChargeList", "ItemFeeList", "PromotionList",
     "ItemChargeAdjustmentList", "ItemFeeAdjustmentList", "AdjustmentItemList",
     "FeeList", "ChargebackAdjustmentList"}

\* The event lists whose events carry the order id themselves (an adjustment
\* carries it on each line).
EventLists ==
    {"ShipmentEventList", "RefundEventList", "ServiceFeeEventList", "ChargebackEventList"}

\* CurrencyAmount values of the lines served.
Amounts == {5, 10, 100}

\* The orders a settlement is looked up for; the lines served belong to any
\* order of OrderIds.
ScanOrders == {"A1"}

\* What a marketplace call made through call_sp_api_method comes to: a
\* payload, an empty payload (None), the retry budget exhausted (the wrapper
\* has then set enable_sync = 0 and thrown), or another exception.
CallOutcomes == {"page", "empty", "exhausted", "Exception"}

\* float(0) as the scan's "nothing found" amount.
NoPayout == 0

\* The fold with promotions added instead of subtracted.
add_line_promotions_added(t, c, a) ==
    IF c \in {"ItemChargeList", "ItemChargeAdjustmentList", "AdjustmentItemList",
              "ChargebackAdjustmentList", "PromotionList"}
    THEN t + a ELSE t - a

\* total += / -= float(amount) for a line of list c of a matching event.
add_line(t, c, a) ==
    IF c \in {"ItemChargeList", "ItemChargeAdjustmentList", "AdjustmentItemList",
              "ChargebackAdjustmentList"}
    THEN t + a ELSE t - a

\* A group start that keeps the running total.
reset_total_carried(t) == t

\* total = 0.0 at the start of a group.
reset_total(t) == 0

\* A group wins as soon as the order was found in it.
group_wins_found_only(f, t) == f

\* if found and total > 0: return total, settlement_id
group_wins(f, t) == f /\ t > 0

\* The marketplace calls made since a call last ran out of retries.
late(n) == IF exhausted_at # None THEN n + 1 ELSE n

\* The observation variables at the start of a group.
ObserveNothing ==
    /\ matched' = [c \in Categories |-> 0]
    /\ matching_events' = 0

\* check_amazon_settlement_available(order_id) is entered and makes its
\* first list_financial_event_groups call, inside try/except.
SettleStart ==
    /\ spc = "idle"
    /\ \E o \in ScanOrders : scan_order_id' = o
    /\ total' = 0 /\ found' = FALSE /\ gi' = 1 /\ next_token' = FALSE
    /\ npages' = 1 /\ nlines' = 0
    /\ ObserveNothing
    /\ fetched' = {} /\ positives' = {} /\ late_calls' = 0
    /\ \E outcome \in CallOutcomes :
        \/ /\ outcome = "exhausted"
           /\ enable_sync' = 0
           /\ exhausted_at' = "groups_first"
           /\ spc' = "returned"
           /\ sret' = [payout |-> NoPayout, sid |-> None]
           /\ groups' = <<>> /\ next_group_token' = FALSE
        \/ /\ outcome \in {"Exception", "empty"}
           /\ exhausted_at' = None
           /\ spc' = "returned"
           /\ sret' = [payout |-> NoPayout, sid |-> None]
           /\ groups' = <<>> /\ next_group_token' = FALSE
           /\ UNCHANGED enable_sync
        \/ /\ outcome = "page"
           /\ exhausted_at' = None
           /\ \E k \in 0..Len(GroupIds), tok \in BOOLEAN :
                /\ groups' = SubSeq(GroupIds, 1, k)
                /\ next_group_token' = tok
                /\ spc' = IF tok THEN "group_pages" ELSE "groups"
           /\ sret' = [payout |-> NoPayout, sid |-> None]
           /\ UNCHANGED enable_sync
    /\ UNCHANGED <<docvars, othervars, retryvars>>

\* "Pagination: load more groups": a next-token call, outside any try.
GroupsNextPage ==
    /\ spc = "group_pages"
    /\ \E outcome \in CallOutcomes :
        \/ /\ outcome = "exhausted"
           /\ enable_sync' = 0
           /\ late_calls' = 0
           /\ exhausted_at' = "groups_next"
           /\ spc' = "raised"
           /\ UNCHANGED <<groups, next_group_token, npages>>
        \/ /\ outcome \in {"Exception", "empty"}
           /\ late_calls' = late(late_calls)
           /\ spc' = "raised"
           /\ UNCHANGED <<enable_sync, exhausted_at, groups, next_group_token, npages>>
        \/ /\ outcome = "page"
           /\ late_calls' = late(late_calls)
           /\ \E k \in 0..(Len(GroupIds) - Len(groups)), tok \in BOOLEAN :
                /\ tok => npages + 1 < MaxPages
                /\ groups' = groups \o SubSeq(GroupIds, Len(groups) + 1, Len(groups) + k)
                /\ next_group_token' = tok
                /\ spc' = IF tok THEN "group_pages" ELSE "groups"
           /\ npages' = npages + 1
           /\ UNCHANGED <<enable_sync, exhausted_at>>
    /\ UNCHANGED <<docvars, othervars, retryvars, scan_order_id, gi, next_token, total, found, sret,
                   nlines, matched, matching_events, fetched, positives>>

\* The first list_financial_events_by_group_id call of the next group, inside
\* try/except: a failure or an empty payload moves on to the group after it.
GroupFirstEvents ==
    /\ spc = "groups" /\ gi <= Len(groups)
    /\ fetched' = fetched \cup {gi}
    /\ \E outcome \in CallOutcomes :
        \/ /\ outcome = "exhausted"
           /\ enable_sync' = 0
           /\ late_calls' = 0
           /\ exhausted_at' = "events_first"
           /\ gi' = gi + 1
           /\ UNCHANGED <<spc, total, found, next_token, npages, matched, matching_events>>
        \/ /\ outcome \in {"Exception", "empty"}
           /\ late_calls' = late(late_calls)
           /\ gi' = gi + 1
           /\ UNCHANGED <<spc, enable_sync, exhausted_at, total, found, next_token,
                          npages, matched, matching_events>>
        \/ /\ outcome = "page"
           /\ late_calls' = late(late_calls)
           /\ total' = reset_total(total)
           /\ found' = FALSE
           /\ ObserveNothing
           /\ npages' = 1
           /\ \E tok \in BOOLEAN : next_token' = tok
           /\ spc' = "scan"
           /\ UNCHANGED <<enable_sync, exhausted_at, gi>>
    /\ UNCHANGED <<docvars, othervars, retryvars, scan_order_id, groups, next_group_token, sret, nlines,
                   positives>>

\* One amount line of the page: it is folded into total when its event (its
\* adjustment line) carries scan_order_id.
ScanLine ==
    /\ spc = "scan" /\ nlines < MaxLines
    /\ nlines' = nlines + 1
    /\ \E c \in Categories, o \in OrderIds :
       \E a \in IF o = scan_order_id THEN Amounts ELSE {100} :
        IF o = scan_order_id
        THEN /\ found' = TRUE
             /\ total' = add_line(total, c, a)
             /\ matched' = [matched EXCEPT ![c] = @ + a]
             /\ matching_events' = matching_events + 1
        ELSE UNCHANGED <<found, total, matched, matching_events>>
    /\ UNCHANGED <<docvars, othervars, enable_sync, retryvars, spc, scan_order_id, groups,
                   next_group_token, gi, next_token, sret, npages, fetched, positives,
                   exhausted_at, late_calls>>

\* A line of a matching event that comes without its amount field: the
\* adjustment line is read with adj.get("QuantityAdjustment", 0) and adds 0;
\* every other list is read with line[...]["CurrencyAmount"], which raises
\* KeyError, and nothing around the fold catches it.
ScanLineNoAmount ==
    /\ spc = "scan" /\ nlines < MaxLines
    /\ nlines' = nlines + 1
    /\ found' = TRUE
    /\ matching_events' = matching_events + 1
    /\ \E c \in Categories :
        spc' = IF c = "AdjustmentItemList" THEN "scan" ELSE "key_error"
    /\ UNCHANGED <<docvars, othervars, enable_sync, retryvars, scan_order_id, groups,
                   next_group_token, gi, next_token, total, sret, npages, matched,
                   fetched, positives, exhausted_at, late_calls>>

\* An event of the page that carries scan_order_id and has no amount line.
ScanEvent ==
    /\ spc = "scan" /\ nlines < MaxLines
    /\ nlines' = nlines + 1
    /\ \E l \in EventLists :
        /\ found' = TRUE
        /\ matching_events' = matching_events + 1
    /\ UNCHANGED <<docvars, othervars, enable_sync, retryvars, spc, scan_order_id, groups,
                   next_group_token, gi, next_token, total, sret, npages, matched,
                   fetched, positives, exhausted_at, late_calls>>

\* "Pagination inside group": the page is done.
EndPage ==
    /\ spc = "scan"
    /\ spc' = IF next_token THEN "events_next" ELSE "close"
    /\ UNCHANGED <<docvars, othervars, enable_sync, retryvars, scan_order_id, groups, next_group_token,
                   gi, next_token, total, found, sret, npages, nlines, matched, matching_events,
                   fetched, positives, exhausted_at, late_calls>>

\* The next-token call with its failure handled like the first call's.
EventsNextPage_caught ==
    /\ spc = "events_next"
    /\ \E outcome \in CallOutcomes :
        \/ /\ outcome = "exhausted"
           /\ enable_sync' = 0
           /\ late_calls' = 0
           /\ exhausted_at' = "events_next"
           /\ spc' = "close"
           /\ UNCHANGED <<next_token, npages>>
        \/ /\ outcome \in {"Exception", "empty"}
           /\ late_calls' = late(late_calls)
           /\ spc' = "raised"
           /\ UNCHANGED <<enable_sync, exhausted_at, next_token, npages>>
        \/ /\ outcome = "page"
           /\ late_calls' = late(late_calls)
           /\ npages' = npages + 1
           /\ \E tok \in BOOLEAN :
                /\ tok => npages + 1 < MaxPages
                /\ next_token' = tok
           /\ spc' = "scan"
           /\ UNCHANGED <<enable_sync, exhausted_at>>
    /\ UNCHANGED <<docvars, othervars, retryvars, scan_order_id, groups, next_group_token, gi, total,
                   found, sret, nlines, matched, matching_events, fetched, positives>>

\* The next-token list_financial_events_by_group_id call, outside any try.
EventsNextPage ==
    /\ spc = "events_next"
    /\ \E outcome \in CallOutcomes :
        \/ /\ outcome = "exhausted"
           /\ enable_sync' = 0
           /\ late_calls' = 0
           /\ exhausted_at' = "events_next"
           /\ spc' = "raised"
           /\ UNCHANGED <<next_token, npages>>
        \/ /\ outcome \in {"Exception", "empty"}
           /\ late_calls' = late(late_calls)
           /\ spc' = "raised"
           /\ UNCHANGED <<enable_sync, exhausted_at, next_token, npages>>
        \/ /\ outcome = "page"
           /\ late_calls' = late(late_calls)
           /\ npages' = npages + 1
           /\ \E tok \in BOOLEAN :
                /\ tok => npages + 1 < MaxPages
                /\ next_token' = tok
           /\ spc' = "scan"
           /\ UNCHANGED <<enable_sync, exhausted_at>>
    /\ UNCHANGED <<docvars, othervars, retryvars, scan_order_id, groups, next_group_token, gi, total,
                   found, sret, nlines, matched, matching_events, fetched, positives>>

\* What the lines of the current group that belong to scan_order_id net to.
net_of_matched ==
    matched["ItemChargeList"] - matched["ItemFeeList"] - matched["PromotionList"]
    + matched["ItemChargeAdjustmentList"] - matched["ItemFeeAdjustmentList"]
    + matched["AdjustmentItemList"] - matched["FeeList"]
    + matched["ChargebackAdjustmentList"]

\* All pages of the group are read: return it when found and total > 0, else
\* go on with the next group.
CloseGroup ==
    /\ spc = "close"
    /\ positives' = IF matching_events > 0 /\ net_of_matched > 0
                    THEN positives \cup {gi} ELSE positives
    /\ IF group_wins(found, total)
       THEN /\ spc' = "returned"
            /\ sret' = [payout |-> total, sid |-> groups[gi]]
            /\ UNCHANGED gi
       ELSE /\ spc' = "groups"
            /\ gi' = gi + 1
            /\ UNCHANGED sret
    /\ UNCHANGED <<docvars, othervars, enable_sync, retryvars, scan_order_id, groups, next_group_token,
                   next_token, total, found, npages, nlines, matched, matching_events, fetched,
                   exhausted_at, late_calls>>

\* "No settlement found": the groups are used up.
ReturnNone ==
    /\ spc = "groups" /\ gi > Len(groups)
    /\ spc' = "returned"
    /\ sret' = [payout |-> NoPayout, sid |-> None]
    /\ UNCHANGED <<docvars, othervars, enable_sync, retryvars, scan_order_id, groups, next_group_token,
                   gi, next_token, total, found, npages, nlines, matched, matching_events, fetched,
                   positives, exhausted_at, late_calls>>

\* ------------------------------------------------------------ order items

\* SellerSKU values of the marketplace and the OrderItems lines a payload can
\* carry; a line may come without QuantityOrdered or without ShippingPrice.
SKUs == {"X", "Y"}
OrderItemLines ==
    [QuantityOrdered : {-1, 0, 1, 3}, ItemPrice : {20}, ShippingPrice : {0, 5, 6},
     SellerSKU : SKUs]
    \cup [ItemPrice : {20}, ShippingPrice : {6}, SellerSKU : {"X"}]
    \cup [QuantityOrdered : {3}, ItemPrice : {20}, SellerSKU : {"X"}]

RECURSIVE SeqsUpTo(_, _)
SeqsUpTo(S, n) ==
    IF n = 0 THEN {<<>>}
    ELSE LET shorter == SeqsUpTo(S, n - 1)
         IN  shorter \cup {Append(q, x) : q \in shorter, x \in S}

\* oi.get(key, default)
get(oi, key, default) == IF key \in DOMAIN oi THEN oi[key] ELSE default

\* A float that is a quotient of two integers, in lowest terms.
RECURSIVE gcd(_, _)
gcd(a, b) == IF b = 0 THEN a ELSE gcd(b, a % b)
quotient(n, d) == [num |-> n \div gcd(n, d), den |-> d \div gcd(n, d)]

\* Shipping charged whole to each unit.
per_item_shipping_whole(ship_price, qty) == quotient(ship_price, 1)

\* per_item_shipping = ship_price / qty if qty else 0
per_item_shipping(ship_price, qty) ==
    IF qty # 0 THEN quotient(ship_price, qty) ELSE quotient(0, 1)

\* rate = item_price + per_item_shipping
rate_of(item_price, shipping) ==
    quotient(item_price * shipping.den + shipping.num, shipping.den)

\* get_item_code(order_item): the Item found by the mapped field SellerSKU,
\* or created when the settings allow it; else frappe.throw.
get_item_code(oi, known, create) ==
    IF oi.SellerSKU \in known \/ create
    THEN [item_code |-> oi.SellerSKU, raised |-> FALSE]
    ELSE [item_code |-> None, raised |-> TRUE]

\* One pass of the loop body of get_order_items over a line.
order_item_row(oi) ==
    LET qty == get(oi, "QuantityOrdered", 1)
        item_price == get(oi, "ItemPrice", 0)
        ship_price == get(oi, "ShippingPrice", 0)
    IN  [item_code |-> oi.SellerSKU,
         rate |-> rate_of(item_price, per_item_shipping(ship_price, qty)),
         qty |-> qty,
         amazon_item_price |-> item_price,
         amazon_shipping |-> ship_price]

\* get_order_items(order_id) over the OrderItems of the payload: lines with
\* QuantityOrdered <= 0 are skipped, the others appended to final_items; a
\* throw of get_item_code ends the call.
RECURSIVE get_order_items(_, _, _)
get_order_items(items, known, create) ==
    IF items = <<>>
    THEN [items |-> <<>>, raised |-> FALSE]
    ELSE LET oi == Head(items)
             rest == get_order_items(Tail(items), known, create)
         IN  IF get(oi, "QuantityOrdered", 0) <= 0
             THEN rest
             ELSE IF get_item_code(oi, known, create).raised \/ rest.raised
             THEN [items |-> <<>>, raised |-> TRUE]
             ELSE [items |-> <<order_item_row(oi)>> \o rest.items, raised |-> FALSE]

\* A call of get_order_items for a payload of the marketplace.
GetOrderItems ==
    /\ ipc = "idle"
    /\ \E payload \in SeqsUpTo(OrderItemLines, MaxItems),
          known \in SUBSET SKUs, create \in BOOLEAN :
        /\ order_items' = payload
        /\ known_items' = known
        /\ create_item_if_not_exists' = create
        /\ final_items' = get_order_items(payload, known, create)
    /\ ipc' = "done"
    /\ UNCHANGED <<docvars, enable_sync, retryvars, settlevars, updatevars, pagevars, runvars, lookupvars, morevars>>

\* ------------------------------------------------------------ get_item_code

\* Rows of amazon_fields_map in the settings: the marketplace field, the
\* Item field it maps to, and whether it is used to find the Item.
FieldMappings ==
    [amazon_field : {"SellerSKU"}, item_field : {"item_code"},
     use_to_find_item_code : BOOLEAN]
    \cup [amazon_field : {"ASIN"}, item_field : {"custom_asin"},
          use_to_find_item_code : BOOLEAN]

\* Order lines, a field of which may be null, and Item tables of the ERP.
LookupLines == [SellerSKU : {"X", None}, ASIN : {"B1", None}]
ItemX == [item_code |-> "X", custom_asin |-> "B9"]
ItemY == [item_code |-> "Y", custom_asin |-> "B1"]
ItemTables == SUBSET {ItemX, ItemY}

\* frappe.db.get_value("Item", {item_field: value}, "item_code")
get_value_item(table, item_field, value) ==
    LET found_items == {it \in table : it[item_field] = value}
    IN  IF found_items = {} THEN None ELSE (CHOOSE it \in found_items : TRUE).item_code

\* The field loop of create_item: a row used to find the Item sets
\* item_code, and every row sets its item_field, in row order.
RECURSIVE map_fields(_, _, _)
map_fields(item, oi, maps) ==
    IF maps = <<>>
    THEN item
    ELSE LET m == Head(maps)
             a == IF m.use_to_find_item_code
                  THEN [item EXCEPT !.item_code = oi[m.amazon_field]] ELSE item
             b == [a EXCEPT ![m.item_field] = oi[m.amazon_field]]
         IN  map_fields(b, oi, Tail(maps))

\* create_item(order_item): a new Item from the mapped fields and its
\* Ecommerce Item cross-reference. The ERP takes no Item without item_code
\* and none whose item_code is taken; any failure raises.
create_item(oi, maps, table, eci, out) ==
    LET item == map_fields([item_code |-> None, custom_asin |-> None], oi, maps)
    IN  IF \/ out # "ok"
           \/ item.item_code = None
           \/ \E it \in table : it.item_code = item.item_code
        THEN [item_code |-> None, raised |-> "error", table |-> table, eci |-> eci]
        ELSE [item_code |-> item.item_code, raised |-> "none",
              table |-> table \cup {item},
              eci |-> eci \cup {[erpnext_item_code |-> item.item_code,
                                  integration_item_code |-> oi.ASIN,
                                  sku |-> oi.SellerSKU]}]

\* get_item_code(order_item) over the rows of amazon_fields_map: rows not
\* used for lookup and rows whose value is null are skipped; the first
\* other row decides: its Item is returned, or, when there is none,
\* frappe.throw if items may not be created, else the loop is left; after
\* the loop create_item is called.
RECURSIVE get_item_code_mapped(_, _, _, _, _, _, _)
get_item_code_mapped(oi, maps, all_maps, table, eci, create, out) ==
    IF maps = <<>>
    THEN create_item(oi, all_maps, table, eci, out)
    ELSE LET m == Head(maps)
             value == oi[m.amazon_field]
             item_code == get_value_item(table, m.item_field, value)
         IN  IF ~m.use_to_find_item_code \/ value = None
             THEN get_item_code_mapped(oi, Tail(maps), all_maps, table, eci, create, out)
             ELSE IF item_code # None
             THEN [item_code |-> item_code, raised |-> "none",
                   table |-> table, eci |-> eci]
             ELSE IF ~create
             THEN [item_code |-> None, raised |-> "not_found",
                   table |-> table, eci |-> eci]
             ELSE create_item(oi, all_maps, table, eci, out)

\* A call of get_item_code for an order line.
GetItemCode ==
    /\ lpc = "idle"
    /\ \E oi \in LookupLines, maps \in SeqsUpTo(FieldMappings, MaxMappings),
          table \in ItemTables, create \in BOOLEAN, out \in ErpOutcomes :
        LET r == get_item_code_mapped(oi, maps, maps, table, {}, create, out)
        IN  /\ order_item' = oi
            /\ amazon_fields_map' = maps
            /\ items_before' = table
            /\ create_item_if_not_exists' = create
            /\ item_table' = r.table
            /\ ecommerce_items' = r.eci
            /\ item_lookup' = [item_code |-> r.item_code, raised |-> r.raised]
    /\ lpc' = "done"
    /\ UNCHANGED <<docvars, enable_sync, retryvars, settlevars, updatevars, pagevars,
                   runvars, morevars, order_items, known_items, ipc, final_items>>

\* --------------------------------------------------- taxes and charges

\* ItemChargeList and ItemFeeList lines of the order's shipment events, and
\* the tax and shipping amounts carried by the rows of get_order_items.
ChargeLines == [ChargeType : {"Principal", "Tax"}, CurrencyAmount : {0, 3}]
FeeLines == [FeeType : {"Commission"}, CurrencyAmount : {0, -2}]
TaxRows == [amazon_item_tax : {0, 4}, amazon_shipping : {0, 6}, amazon_shipping_tax : {0, 1}]

\* get_charges_and_fees, "charges": the charge lines with amount != 0 whose
\* type is not Principal.
get_charges(charges) ==
    LET kept == SelectSeq(charges, LAMBDA c : c.CurrencyAmount # 0 /\ c.ChargeType # "Principal")
    IN  [k \in 1..Len(kept) |->
            [tax_amount |-> kept[k].CurrencyAmount, description |-> kept[k].ChargeType]]

\* get_charges_and_fees, "fees": the fee lines with amount != 0.
get_fees(fees) ==
    LET kept == SelectSeq(fees, LAMBDA f : f.CurrencyAmount # 0)
    IN  [k \in 1..Len(kept) |->
            [tax_amount |-> kept[k].CurrencyAmount, description |-> kept[k].FeeType]]

\* total_item_tax, total_ship, total_ship_tax over the item rows.
RECURSIVE total_of(_, _)
total_of(rows, field) ==
    IF rows = <<>> THEN 0 ELSE Head(rows)[field] + total_of(Tail(rows), field)

\* The fallback lines, each only when its total is > 0.
fallback_taxes(rows) ==
    (IF total_of(rows, "amazon_item_tax") > 0
     THEN <<[tax_amount |-> total_of(rows, "amazon_item_tax"),
             description |-> "Sales Tax from Amazon"]>> ELSE <<>>)
    \o (IF total_of(rows, "amazon_shipping") > 0
        THEN <<[tax_amount |-> total_of(rows, "amazon_shipping"),
                description |-> "Shipping Charge from Amazon"]>> ELSE <<>>)
    \o (IF total_of(rows, "amazon_shipping_tax") > 0
        THEN <<[tax_amount |-> total_of(rows, "amazon_shipping_tax"),
                description |-> "Shipping Tax from Amazon"]>> ELSE <<>>)

\* A breakdown that counts only when it has a charge.
has_breakdown_charges_only(charges, fees) == charges # <<>>

\* if charges_and_fees.get("charges") or charges_and_fees.get("fees")
has_breakdown(charges, fees) == charges # <<>> \/ fees # <<>>

\* "TAXES & CHARGES" of create_sales_order: the tax lines of the new Sales
\* Order.
sales_order_taxes(rows, charges, fees, account_set) ==
    IF ~account_set
    THEN <<>>
    ELSE IF has_breakdown(get_charges(charges), get_fees(fees))
    THEN get_charges(charges) \o get_fees(fees)
    ELSE fallback_taxes(rows)

\* create_sales_order builds the taxes of a new Sales Order.
BuildTaxes ==
    /\ tpc = "idle"
    /\ \E rows \in SeqsUpTo(TaxRows, MaxItems) \ {<<>>},
          charges \in SeqsUpTo(ChargeLines, MaxCharges),
          fees \in SeqsUpTo(FeeLines, 1), account_set \in BOOLEAN :
        /\ tax_items' = rows
        /\ fin_charges' = charges
        /\ fin_fees' = fees
        /\ taxes_charges' = account_set
        /\ so_taxes' = sales_order_taxes(rows, charges, fees, account_set)
    /\ tpc' = "done"
    /\ UNCHANGED <<basevars, payvars, pagingvars>>

\* ------------------------------------------ payment entry amounts

\* Currencies of the invoice and of the company, settlement payouts (floats,
\* as quotients) and what the exchange rate lookup answers: a rate, or it
\* raises (ok is FALSE).
Currencies == {"USD", "EUR", "PKR"}
Payouts == {quotient(85, 1), quotient(171, 2), quotient(1, 4)}
Rates == {quotient(3, 2), quotient(280, 1), quotient(9, 10), quotient(0, 1)}
RateAnswers == [ok : BOOLEAN, rate : Rates]

\* a * b on floats held as quotients
times(a, b) == quotient(a.num * b.num, a.den * b.den)

\* An exchange rate taken from the lookup also when the currencies match.
exchange_rate_always_looked_up(amazon_currency, company_currency, rate) == rate

\* "Determine exchange rate": 1 when the invoice currency is the company's
\* default currency, else the rate of get_exchange_rate.
exchange_rate_of(amazon_currency, company_currency, rate) ==
    IF amazon_currency = company_currency THEN quotient(1, 1) ELSE rate

\* The amounts create_payment_entry_from_si puts on the Payment Entry and
\* on its reference row.
payment_entry_amounts(payout_usd, amazon_currency, company_currency, rate) ==
    LET exchange_rate == exchange_rate_of(amazon_currency, company_currency, rate)
        received_amount == times(payout_usd, exchange_rate)
    IN  [paid_amount |-> payout_usd,
         paid_from_account_currency |-> amazon_currency,
         received_amount |-> received_amount,
         received_to_account_currency |-> company_currency,
         source_exchange_rate |-> exchange_rate,
         allocated_amount |-> received_amount]

\* create_payment_entry_from_si with its reads as inputs: the settlement id
\* on the invoice, the two currencies, the answer of the rate lookup and the
\* payout account.
payment_entry_from_si(inp) ==
    IF inp.si_settlement_id = inp.settlement_id
    THEN [pc |-> "returned", pe |-> <<>>]
    ELSE IF inp.amazon_currency # inp.company_currency /\ ~inp.rate.ok
    THEN [pc |-> "raised", pe |-> <<>>]
    ELSE IF ~inp.payout_acct
    THEN [pc |-> "raised", pe |-> <<>>]
    ELSE [pc |-> "returned",
          pe |-> <<payment_entry_amounts(inp.payout_usd, inp.amazon_currency,
                                         inp.company_currency, inp.rate.rate)>>]

\* A call of create_payment_entry_from_si(si_name, payout_usd, settlement_id).
BuildPaymentEntry ==
    /\ ppc = "idle"
    /\ \E payout \in Payouts, ac \in Currencies, cc \in Currencies :
       \E rate \in RateAnswers, sid \in SettlementIds :
       \E on_si \in SettlementIds \cup {None}, acct \in BOOLEAN :
            LET inp == [payout_usd |-> payout, amazon_currency |-> ac,
                        company_currency |-> cc, rate |-> rate,
                        settlement_id |-> sid, si_settlement_id |-> on_si,
                        payout_acct |-> acct]
                r == payment_entry_from_si(inp)
            IN  /\ pay_input' = inp
                /\ ppc' = r.pc
                /\ payment_entry' = r.pe
    /\ UNCHANGED <<basevars, taxvars, pagingvars>>

\* ----------------------------------------------------------- pagination

\* The listings the repository pages through, and the marketplace's side of
\* a listing of n pages: page k carries NextToken k + 1, the last page none
\* (0); a call with token t is answered with page t. Page k of the orders
\* listing holds order k, page k of the groups listing holds group k.
Listings == {"orders", "order_items", "groups", "events"}
Markets == [Listings -> 1..MaxPages]
NextTokenOf(n, k) == IF k < n THEN k + 1 ELSE 0

\* A call of a listing operation through call_sp_api_method: for whom (the
\* order of get_order_items, the group of list_financial_events_by_group_id;
\* 0 otherwise) and with which next_token (0: the first call).
request(listing, owner, token) == [listing |-> listing, owner |-> owner, token |-> token]

PagingFrame == UNCHANGED <<basevars, taxvars, payvars>>

\* get_orders: the first get_orders call of the Orders API.
PageOrdersFirst ==
    /\ qpc = "idle"
    /\ \E mk \in Markets :
        /\ market' = mk
        /\ o_token' = NextTokenOf(mk["orders"], 1)
    /\ o_page' = 1
    /\ requests' = <<request("orders", 0, 0)>>
    /\ qpc' = "order"
    /\ UNCHANGED <<i_token, g_token, e_token, acc_groups, group_idx>>
    /\ PagingFrame

\* The order of the page has a Sales Order: no items are listed.
PageOrderExisting ==
    /\ qpc = "order"
    /\ qpc' = "page_end"
    /\ UNCHANGED <<market, o_page, o_token, i_token, g_token, e_token, requests,
                   acc_groups, group_idx>>
    /\ PagingFrame

\* The order of the page is new: create_sales_order calls get_order_items,
\* which makes its first call.
PageItemsFirst ==
    /\ qpc = "order"
    /\ requests' = Append(requests, request("order_items", o_page, 0))
    /\ i_token' = NextTokenOf(market["order_items"], 1)
    /\ qpc' = "items"
    /\ UNCHANGED <<market, o_page, o_token, g_token, e_token, acc_groups, group_idx>>
    /\ PagingFrame

\* get_order_items: next_token is set, the next page is called for.
PageItemsNext ==
    /\ qpc = "items" /\ i_token # 0
    /\ requests' = Append(requests, request("order_items", o_page, i_token))
    /\ i_token' = NextTokenOf(market["order_items"], i_token)
    /\ UNCHANGED <<market, qpc, o_page, o_token, g_token, e_token, acc_groups, group_idx>>
    /\ PagingFrame

\* get_order_items: if not next_token: break.
PageItemsReturn ==
    /\ qpc = "items" /\ i_token = 0
    /\ qpc' = "page_end"
    /\ UNCHANGED <<market, o_page, o_token, i_token, g_token, e_token, requests,
                   acc_groups, group_idx>>
    /\ PagingFrame

\* get_orders: the page is done and next_token is set.
PageOrdersNext ==
    /\ qpc = "page_end" /\ o_token # 0
    /\ requests' = Append(requests, request("orders", 0, o_token))
    /\ o_page' = o_token
    /\ o_token' = NextTokenOf(market["orders"], o_token)
    /\ qpc' = "order"
    /\ UNCHANGED <<market, i_token, g_token, e_token, acc_groups, group_idx>>
    /\ PagingFrame

\* get_orders: if not next_token: break; return processed_orders.
PageOrdersReturn ==
    /\ qpc = "page_end" /\ o_token = 0
    /\ qpc' = "returned"
    /\ UNCHANGED <<market, o_page, o_token, i_token, g_token, e_token, requests,
                   acc_groups, group_idx>>
    /\ PagingFrame

\* check_amazon_settlement_available: the first list_financial_event_groups
\* call.
PageGroupsFirst ==
    /\ qpc = "idle"
    /\ \E mk \in Markets :
        /\ market' = mk
        /\ g_token' = NextTokenOf(mk["groups"], 1)
    /\ requests' = <<request("groups", 0, 0)>>
    /\ acc_groups' = <<1>>
    /\ group_idx' = 1
    /\ qpc' = "group_pages"
    /\ UNCHANGED <<o_page, o_token, i_token, e_token>>
    /\ PagingFrame

\* "load more groups" with the new page put in front of the list.
PageGroupsNext_prepend ==
    /\ qpc = "group_pages" /\ g_token # 0
    /\ requests' = Append(requests, request("groups", 0, g_token))
    /\ acc_groups' = <<g_token>> \o acc_groups
    /\ g_token' = NextTokenOf(market["groups"], g_token)
    /\ UNCHANGED <<market, qpc, o_page, o_token, i_token, e_token, group_idx>>
    /\ PagingFrame

\* while next_group_token: call with the token, groups.extend(...), take the
\* NextToken of the new page.
PageGroupsNext ==
    /\ qpc = "group_pages" /\ g_token # 0
    /\ requests' = Append(requests, request("groups", 0, g_token))
    /\ acc_groups' = acc_groups \o <<g_token>>
    /\ g_token' = NextTokenOf(market["groups"], g_token)
    /\ UNCHANGED <<market, qpc, o_page, o_token, i_token, e_token, group_idx>>
    /\ PagingFrame

\* The while loop over the group pages ends.
PageGroupsDone ==
    /\ qpc = "group_pages" /\ g_token = 0
    /\ qpc' = "groups"
    /\ UNCHANGED <<market, o_page, o_token, i_token, g_token, e_token, requests,
                   acc_groups, group_idx>>
    /\ PagingFrame

\* for group in groups: the first list_financial_events_by_group_id call.
PageEventsFirst ==
    /\ qpc = "groups" /\ group_idx <= Len(acc_groups)
    /\ requests' = Append(requests, request("events", acc_groups[group_idx], 0))
    /\ e_token' = NextTokenOf(market["events"], 1)
    /\ qpc' = "events"
    /\ UNCHANGED <<market, o_page, o_token, i_token, g_token, acc_groups, group_idx>>
    /\ PagingFrame

\* "Pagination inside group": next_token is set.
PageEventsNext ==
    /\ qpc = "events" /\ e_token # 0
    /\ requests' = Append(requests, request("events", acc_groups[group_idx], e_token))
    /\ e_token' = NextTokenOf(market["events"], e_token)
    /\ UNCHANGED <<market, qpc, o_page, o_token, i_token, g_token, acc_groups, group_idx>>
    /\ PagingFrame

\* if not next_token: break; then the group is returned when found and
\* total > 0, else the loop goes on with the next group.
PageGroupClose ==
    /\ qpc = "events" /\ e_token = 0
    /\ \E wins \in BOOLEAN :
        IF wins
        THEN qpc' = "returned" /\ UNCHANGED group_idx
        ELSE qpc' = "groups" /\ group_idx' = group_idx + 1
    /\ UNCHANGED <<market, o_page, o_token, i_token, g_token, e_token, requests, acc_groups>>
    /\ PagingFrame

\* "No settlement found": return 0.0, None.
PageScanReturn ==
    /\ qpc = "groups" /\ group_idx > Len(acc_groups)
    /\ qpc' = "returned"
    /\ UNCHANGED <<market, o_page, o_token, i_token, g_token, e_token, requests,
                   acc_groups, group_idx>>
    /\ PagingFrame

\* ------------------------------------------------- sales order update

\* What the marketplace reports as the lines of the order on a pass, and
\* what the ERP does with so.save(): a save can be refused (validation,
\* update-after-submit rules of the document type).
UpdateLines ==
    [QuantityOrdered : {1, 3}, ItemPrice : {20}, ShippingPrice : {6}, SellerSKU : SKUs]
SaveOutcomes == {"ok", "refused"}

\* The item row of a Sales Order made of a get_order_items row.
so_item(row) == [item_code |-> row.item_code, qty |-> row.qty, rate |-> row.rate]

\* existing_items: item_code -> the last row of the document with that code
existing_items(items) ==
    [c \in {items[k].item_code : k \in 1..Len(items)} |->
        CHOOSE k \in 1..Len(items) :
            /\ items[k].item_code = c
            /\ \A j \in 1..Len(items) : items[j].item_code = c => j <= k]

\* update_order_items(sales_order, updated_items): a row whose item_code
\* the document had gets the new qty and rate, any other row is appended.
RECURSIVE update_order_items(_, _, _)
update_order_items(items, existing, updated_items) ==
    IF updated_items = <<>>
    THEN items
    ELSE LET u == Head(updated_items)
             next == IF u.item_code \in DOMAIN existing
                     THEN [items EXCEPT ![existing[u.item_code]].qty = u.qty,
                                        ![existing[u.item_code]].rate = u.rate]
                     ELSE Append(items, so_item(u))
         IN  update_order_items(next, existing, Tail(updated_items))

\* update_sales_order(so_name, amazon_order) on the item rows: the rows are
\* changed on the loaded document whatever its docstatus, then so.save(),
\* then so.submit() if the document is a draft; an exception anywhere
\* (get_order_items, save) is logged and nothing is written.
update_sales_order_items(doc, fetched_items, save_out) ==
    LET changed == update_order_items(doc.items, existing_items(doc.items),
                                      fetched_items.items)
    IN  IF fetched_items.raised \/ save_out # "ok"
        THEN doc
        ELSE [docstatus |-> 1, items |-> changed]

\* The Sales Order of the order comes to exist: create_sales_order inserts
\* and submits it with the rows of get_order_items; a draft is one entered
\* or amended in the ERP and not yet submitted.
InsertSalesOrder ==
    /\ so_docs = <<>>
    /\ \E payload \in SeqsUpTo(UpdateLines, MaxItems), docstatus \in {0, 1} :
        LET r == get_order_items(payload, SKUs, FALSE)
        IN  /\ r.items # <<>>
            /\ so_docs' = <<[docstatus |-> docstatus,
                             items |-> [k \in 1..Len(r.items) |-> so_item(r.items[k])]]>>
    /\ UNCHANGED <<docvars, enable_sync, retryvars, settlevars, itemvars, pagevars, runvars, lookupvars, morevars, updates>>

\* A call of update_sales_order for the existing Sales Order of the order.
UpdateSalesOrder ==
    /\ so_docs # <<>>
    /\ updates < MaxUpdates
    /\ \E payload \in SeqsUpTo(UpdateLines, MaxItems), known \in {SKUs, {}},
          save_out \in SaveOutcomes :
        so_docs' = <<update_sales_order_items(
                        so_docs[1], get_order_items(payload, known, FALSE), save_out)>>
    /\ updates' = updates + 1
    /\ UNCHANGED <<docvars, enable_sync, retryvars, settlevars, itemvars, pagevars, runvars, lookupvars, morevars>>

\* ------------------------------------------------------------- get_orders

\* The pages a get_orders call can be served: each page lists one or two
\* different orders.
OrderPages ==
    {<<o>> : o \in OrderIds}
    \cup {pg \in {<<o, q>> : o \in OrderIds, q \in OrderIds} : pg[1] # pg[2]}

\* Body of the order loop of get_orders with the item lookup of
\* create_sales_order: for an order without Sales Order, get_order_items
\* throws out of create_sales_order when an Item is not found and may not be
\* created; nothing has been written by then.
get_orders_body(db, order, item_found, has_items, erp, fin, payout_acct) ==
    LET existing_so == get_value_sales_order(db.so, order.AmazonOrderId)
        r == get_orders_one(db, order, has_items, erp, fin, payout_acct)
        c == create_sales_order(db, order, has_items, erp, fin, payout_acct)
    IN  IF existing_so = NoSO /\ ~item_found
        THEN [db |-> db, so_name |-> NoSO, raised |-> TRUE]
        ELSE [db |-> r.db,
              so_name |-> IF existing_so # NoSO THEN existing_so ELSE c.name,
              raised |-> r.raised]

\* get_orders is called and the first page arrives.
GetOrdersStart ==
    /\ gpc = "idle"
    /\ \E pages \in SeqsUpTo(OrderPages, MaxPages) \ {<<>>} :
        /\ orders_list' = Head(pages)
        /\ more_pages' = Tail(pages)
    /\ gpc' = "running"
    /\ processed_orders' = <<>>
    /\ UNCHANGED <<docvars, enable_sync, retryvars, settlevars, itemvars, updatevars,
                   runvars, lookupvars, morevars, failed_order>>

\* The loop body for the next order of the page. An exception of the body
\* leaves get_orders: there is no handler in the loop.
GetOrdersOrder ==
    /\ gpc = "running" /\ orders_list # <<>>
    /\ LET o == Head(orders_list) IN
       \E s \in order_statuses :
       \E item_found \in ItemAnswers(DB, o), has_items \in ItemAnswers(DB, o) :
       \E dn_out \in DnAnswers(DB, s, o, has_items /\ item_found),
          si_out \in SiAnswers(DB, s, o, has_items /\ item_found) :
       \E fin \in FinAnswers(DB, s, o, has_items /\ item_found, si_out) :
       \E amazon_payout_account \in AcctAnswers(fin) :
            LET order == [AmazonOrderId |-> o, OrderStatus |-> s]
                r == get_orders_body(DB, order, item_found, has_items,
                                     [dn |-> dn_out, si |-> si_out], fin,
                                     amazon_payout_account)
            IN  /\ so' = r.db.so /\ dn' = r.db.dn /\ si' = r.db.si /\ pe' = r.db.pe
                /\ enable_sync' = r.db.enable_sync
                /\ IF r.raised
                   THEN /\ gpc' = "raised"
                        /\ failed_order' = o
                        /\ UNCHANGED <<orders_list, processed_orders>>
                   ELSE /\ orders_list' = Tail(orders_list)
                        /\ processed_orders' =
                                IF r.so_name # NoSO
                                THEN Append(processed_orders, r.so_name)
                                ELSE processed_orders
                        /\ UNCHANGED <<gpc, failed_order>>
    /\ UNCHANGED <<retryvars, settlevars, itemvars, updatevars, runvars, lookupvars, morevars, more_pages>>

\* The page is done and NextToken is set: the next page is fetched through
\* call_sp_api_method, which can run out of retries.
GetOrdersNextPage ==
    /\ gpc = "running" /\ orders_list = <<>> /\ more_pages # <<>>
    /\ \E out \in {"page", "exhausted"} :
        IF out = "exhausted"
        THEN /\ gpc' = "raised"
             /\ enable_sync' = 0
             /\ UNCHANGED <<orders_list, more_pages>>
        ELSE /\ orders_list' = Head(more_pages)
             /\ more_pages' = Tail(more_pages)
             /\ UNCHANGED <<gpc, enable_sync>>
    /\ UNCHANGED <<docvars, retryvars, settlevars, itemvars, updatevars, runvars,
                   lookupvars, morevars, processed_orders, failed_order>>

\* The last page is done: get_orders returns processed_orders.
GetOrdersReturn ==
    /\ gpc = "running" /\ orders_list = <<>> /\ more_pages = <<>>
    /\ gpc' = "returned"
    /\ UNCHANGED <<docvars, enable_sync, retryvars, settlevars, itemvars, updatevars,
                   runvars, lookupvars, morevars, orders_list, more_pages, processed_orders, failed_order>>

\* ---------------------------------------------------------- overlapping runs

\* Two invocations of the sync (two scheduled jobs, or a job and a manual
\* sync) that both hold the same order in their get_orders page. Each
\* statement that reads or writes the ERP is one step.
Runs == {1, 2}
RunOrder == "A1"

\* The order as a run was served it.
run_order(r) == [AmazonOrderId |-> RunOrder, OrderStatus |-> run_status[r]]

\* Where a run goes when a pass of process_order_documents_based_on_status
\* ends: create_sales_order returns to get_orders, which runs the pass
\* again (lines 506, 1031-1033); after that pass the run is done.
after_pass(r) == IF run_pass[r] = 1 THEN "begin" ELSE "done"

PassEnds(r) ==
    /\ pc' = [pc EXCEPT ![r] = after_pass(r)]
    /\ run_pass' = [run_pass EXCEPT ![r] = 2]

RunFrame == UNCHANGED <<retryvars, settlevars, itemvars, updatevars, pagevars, lookupvars,
                        morevars>>

\* get_orders reaches the order in its page.
RunStart(r) ==
    /\ pc[r] = "idle"
    /\ \E s \in order_statuses : run_status' = [run_status EXCEPT ![r] = s]
    /\ pc' = [pc EXCEPT ![r] = "so_lookup"]
    /\ UNCHANGED <<docvars, enable_sync, run_so, run_si, run_fin, run_pass, steps>>
    /\ RunFrame

\* get_orders: existing_so lookup; update_sales_order when there is one.
RunSoLookup(r) ==
    /\ pc[r] = "so_lookup"
    /\ LET existing_so == get_value_sales_order(so, RunOrder)
           d == update_sales_order(DB, existing_so, run_order(r))
       IN  IF existing_so # NoSO
           THEN /\ so' = d.so
                /\ run_so' = [run_so EXCEPT ![r] = existing_so]
                /\ pc' = [pc EXCEPT ![r] = "begin"]
           ELSE /\ pc' = [pc EXCEPT ![r] = "create_lookup"]
                /\ UNCHANGED <<so, run_so>>
    /\ UNCHANGED <<dn, si, pe, enable_sync, run_status, run_si, run_fin, run_pass, steps>>
    /\ RunFrame

\* create_sales_order: the lookup of an existing Sales Order and the items
\* of the order.
RunCreateLookup(r) ==
    /\ pc[r] = "create_lookup"
    /\ LET existing == get_value_sales_order(so, RunOrder)
       IN  IF existing # NoSO
           THEN /\ run_so' = [run_so EXCEPT ![r] = existing]
                /\ pc' = [pc EXCEPT ![r] = "begin"]
           ELSE /\ \E has_items \in BOOLEAN :
                    pc' = [pc EXCEPT ![r] = IF has_items THEN "so_insert" ELSE "done"]
                /\ UNCHANGED run_so
    /\ UNCHANGED <<docvars, enable_sync, run_status, run_si, run_fin, run_pass, steps>>
    /\ RunFrame

\* create_sales_order: so.insert(); so.submit(), then the pass it makes.
RunSoInsert(r) ==
    /\ pc[r] = "so_insert"
    /\ so' = [so EXCEPT ![RunOrder] =
                    Append(@, [amazon_order_id |-> RunOrder, docstatus |-> 1])]
    /\ run_so' = [run_so EXCEPT ![r] = <<RunOrder, Len(so[RunOrder]) + 1>>]
    /\ run_pass' = [run_pass EXCEPT ![r] = 1]
    /\ pc' = [pc EXCEPT ![r] = "begin"]
    /\ UNCHANGED <<dn, si, pe, enable_sync, run_status, run_si, run_fin, steps>>
    /\ RunFrame

\* A pass that starts with the Delivery Note logic.
RunBegin_no_refunds(r) ==
    /\ pc[r] = "begin"
    /\ IF run_status[r] = "Canceled"
       THEN LET d == handle_order_cancellation(DB, RunOrder, run_so[r])
            IN  /\ dn' = d.dn /\ si' = d.si /\ pe' = d.pe
                /\ steps' = [steps EXCEPT ![r] = <<>>]
                /\ PassEnds(r)
       ELSE /\ steps' = [steps EXCEPT ![r] = <<>>]
            /\ pc' = [pc EXCEPT ![r] = "dn_lookup"]
            /\ UNCHANGED <<dn, si, pe, run_pass>>
    /\ UNCHANGED <<so, enable_sync, run_status, run_so, run_si, run_fin>>
    /\ RunFrame

\* process_order_documents_based_on_status: the cancellation test and
\* process_refunds_and_returns.
RunBegin(r) ==
    /\ pc[r] = "begin"
    /\ IF run_status[r] = "Canceled"
       THEN LET d == handle_order_cancellation(DB, RunOrder, run_so[r])
            IN  /\ dn' = d.dn /\ si' = d.si /\ pe' = d.pe
                /\ steps' = [steps EXCEPT ![r] = <<>>]
                /\ PassEnds(r)
       ELSE LET d == process_refunds_and_returns(DB, RunOrder)
            IN  /\ dn' = d.dn /\ si' = d.si /\ pe' = d.pe
                /\ steps' = [steps EXCEPT ![r] = <<"refunds">>]
                /\ pc' = [pc EXCEPT ![r] = "dn_lookup"]
                /\ UNCHANGED run_pass
    /\ UNCHANGED <<so, enable_sync, run_status, run_so, run_si, run_fin>>
    /\ RunFrame

\* Delivery Note logic: the status test, the existing_dn lookup and
\* update_delivery_note.
RunDnLookup(r) ==
    /\ pc[r] = "dn_lookup"
    /\ IF run_status[r] \in {"Shipped", "PartiallyShipped"}
       THEN LET existing_dn == get_value_against_so(dn, run_so[r])
            IN  /\ steps' = [steps EXCEPT ![r] = Append(@, "dn")]
                /\ IF existing_dn # NoDoc
                   THEN /\ dn' = update_delivery_note(DB, existing_dn, "ok").dn
                        /\ pc' = [pc EXCEPT ![r] = "si_lookup"]
                   ELSE /\ pc' = [pc EXCEPT ![r] = "dn_create"]
                        /\ UNCHANGED dn
       ELSE /\ pc' = [pc EXCEPT ![r] = "si_lookup"]
            /\ UNCHANGED <<dn, steps>>
    /\ UNCHANGED <<so, si, pe, enable_sync, run_status, run_so, run_si, run_fin, run_pass>>
    /\ RunFrame

\* create_delivery_note_from_so: its own lookup.
RunDnCreate(r) ==
    /\ pc[r] = "dn_create"
    /\ pc' = [pc EXCEPT ![r] =
                IF get_value_against_so(dn, run_so[r]) # NoDoc
                THEN "si_lookup" ELSE "dn_insert"]
    /\ UNCHANGED <<docvars, enable_sync, run_status, run_so, run_si, run_fin, run_pass, steps>>
    /\ RunFrame

\* create_delivery_note_from_so: dn.insert(); dn.submit().
RunDnInsert(r) ==
    /\ pc[r] = "dn_insert"
    /\ \E out \in ErpOutcomes :
        dn' = insert_and_submit(dn, [custom_against_sales_order |-> run_so[r],
                                     docstatus |-> 0], out)
    /\ pc' = [pc EXCEPT ![r] = "si_lookup"]
    /\ UNCHANGED <<so, si, pe, enable_sync, run_status, run_so, run_si, run_fin, run_pass, steps>>
    /\ RunFrame

\* Sales Invoice logic: the status test, the existing_si lookup and
\* update_sales_invoice.
RunSiLookup(r) ==
    /\ pc[r] = "si_lookup"
    /\ IF run_status[r] \in {"Shipped", "InvoiceUnconfirmed", "PartiallyShipped"}
       THEN LET existing_si == get_value_against_so(si, run_so[r])
            IN  /\ steps' = [steps EXCEPT ![r] = Append(@, "si")]
                /\ IF existing_si # NoDoc
                   THEN /\ si' = update_sales_invoice(DB, existing_si, "ok").si
                        /\ PassEnds(r)
                   ELSE /\ pc' = [pc EXCEPT ![r] = "si_create"]
                        /\ UNCHANGED <<si, run_pass>>
       ELSE /\ PassEnds(r)
            /\ UNCHANGED <<si, steps>>
    /\ UNCHANGED <<so, dn, pe, enable_sync, run_status, run_so, run_si, run_fin>>
    /\ RunFrame

\* create_sales_invoice_from_so: its own lookup; an invoice found here is
\* returned as si_name.
RunSiCreate(r) ==
    /\ pc[r] = "si_create"
    /\ LET existing == get_value_against_so(si, run_so[r])
       IN  IF existing # NoDoc
           THEN /\ run_si' = [run_si EXCEPT ![r] = existing]
                /\ pc' = [pc EXCEPT ![r] = "settle"]
           ELSE /\ pc' = [pc EXCEPT ![r] = "si_insert"]
                /\ UNCHANGED run_si
    /\ UNCHANGED <<docvars, enable_sync, run_status, run_so, run_fin, run_pass, steps>>
    /\ RunFrame

\* create_sales_invoice_from_so: si.insert(); si.submit().
RunSiInsert(r) ==
    /\ pc[r] = "si_insert"
    /\ \E out \in ErpOutcomes :
        /\ si' = insert_and_submit(si, [custom_against_sales_order |-> run_so[r],
                                        docstatus |-> 0,
                                        custom_amazon_settlement_id |-> None], out)
        /\ IF out = "ok"
           THEN /\ run_si' = [run_si EXCEPT ![r] = Len(si) + 1]
                /\ pc' = [pc EXCEPT ![r] = "settle"]
                /\ UNCHANGED run_pass
           ELSE /\ PassEnds(r)
                /\ UNCHANGED run_si
    /\ UNCHANGED <<so, dn, pe, enable_sync, run_status, run_so, run_fin, steps>>
    /\ RunFrame

\* payout, settlement_id = check_amazon_settlement_available(order_id)
RunSettle(r) ==
    /\ pc[r] = "settle"
    /\ steps' = [steps EXCEPT ![r] = Append(@, "settlement")]
    /\ \E fin \in FinOutcomes :
        /\ enable_sync' = IF fin.exc \in {"swallowed", "exhausted"} THEN 0 ELSE enable_sync
        /\ run_fin' = [run_fin EXCEPT ![r] = [payout |-> fin.payout, sid |-> fin.sid]]
        /\ IF fin.exc \in {"exhausted", "error"}
           THEN /\ pc' = [pc EXCEPT ![r] = "raised"]
                /\ UNCHANGED run_pass
           ELSE IF fin.payout > 0 /\ fin.sid # None
           THEN /\ pc' = [pc EXCEPT ![r] = "pe_lookup"]
                /\ UNCHANGED run_pass
           ELSE PassEnds(r)
    /\ UNCHANGED <<docvars, run_status, run_so, run_si>>
    /\ RunFrame

\* The existing_pe lookup by settlement id.
RunPeLookup(r) ==
    /\ pc[r] = "pe_lookup"
    /\ IF get_value_payment_entry(pe, run_fin[r].sid) = NoDoc
       THEN /\ pc' = [pc EXCEPT ![r] = "pe_create"]
            /\ UNCHANGED run_pass
       ELSE PassEnds(r)
    /\ UNCHANGED <<docvars, enable_sync, run_status, run_so, run_si, run_fin, steps>>
    /\ RunFrame

\* create_payment_entry_from_si(si_name, payout, settlement_id)
RunPeCreate(r) ==
    /\ pc[r] = "pe_create"
    /\ steps' = [steps EXCEPT ![r] = Append(@, "pe")]
    /\ \E amazon_payout_account \in BOOLEAN :
        LET c == create_payment_entry_from_si(DB, run_si[r], run_fin[r].payout,
                                              run_fin[r].sid, amazon_payout_account)
        IN  /\ pe' = c.db.pe /\ si' = c.db.si
            /\ IF c.raised
               THEN /\ pc' = [pc EXCEPT ![r] = "raised"]
                    /\ UNCHANGED run_pass
               ELSE PassEnds(r)
    /\ UNCHANGED <<so, dn, enable_sync, run_status, run_so, run_si, run_fin>>
    /\ RunFrame

Init ==
    /\ so = [o \in OrderIds |-> <<>>]
    /\ dn = <<>> /\ si = <<>> /\ pe = <<>>
    /\ enable_sync = 1
    /\ max_retry_limit = 0
    /\ rpc = "idle" /\ errors = <<>> /\ result = None /\ msg = "" /\ saves = 0
    /\ history = <<>> /\ sync_at_start = 1
    /\ spc = "idle" /\ scan_order_id = None /\ groups = <<>> /\ next_group_token = FALSE
    /\ gi = 1 /\ next_token = FALSE /\ total = 0 /\ found = FALSE
    /\ sret = [payout |-> NoPayout, sid |-> None]
    /\ npages = 1 /\ nlines = 0
    /\ matched = [c \in Categories |-> 0] /\ matching_events = 0
    /\ fetched = {} /\ positives = {} /\ exhausted_at = None /\ late_calls = 0
    /\ order_items = <<>> /\ known_items = {} /\ create_item_if_not_exists = FALSE
    /\ ipc = "idle" /\ final_items = [items |-> <<>>, raised |-> FALSE]
    /\ so_docs = <<>> /\ updates = 0
    /\ gpc = "idle" /\ orders_list = <<>> /\ more_pages = <<>>
    /\ processed_orders = <<>> /\ failed_order = None
    /\ pc = [r \in Runs |-> "idle"]
    /\ run_status = [r \in Runs |-> None]
    /\ run_so = [r \in Runs |-> NoSO]
    /\ run_si = [r \in Runs |-> NoDoc]
    /\ run_fin = [r \in Runs |-> [payout |-> NoPayout, sid |-> None]]
    /\ run_pass = [r \in Runs |-> 2]
    /\ steps = [r \in Runs |-> <<>>]
    /\ order_item = [SellerSKU |-> None, ASIN |-> None]
    /\ amazon_fields_map = <<>>
    /\ items_before = {} /\ item_table = {} /\ ecommerce_items = {}
    /\ lpc = "idle" /\ item_lookup = [item_code |-> None, raised |-> "none"]
    /\ tax_items = <<>> /\ fin_charges = <<>> /\ fin_fees = <<>>
    /\ taxes_charges = FALSE /\ tpc = "idle" /\ so_taxes = <<>>
    /\ pay_input = <<>> /\ ppc = "idle" /\ payment_entry = <<>>
    /\ market = [l \in Listings |-> 1] /\ qpc = "idle"
    /\ o_page = 0 /\ o_token = 0 /\ i_token = 0 /\ g_token = 0 /\ e_token = 0
    /\ requests = <<>> /\ acc_groups = <<>> /\ group_idx = 1

Next ==
    \/ GetOrdersOne
    \/ CreateSalesOrder
    \/ ProcessOrderDocuments

\* The sync entry points.
Spec == Init /\ [][Next]_vars

NextDirect ==
    \/ Next
    \/ CreatePaymentEntry

\* The sync entry points and direct calls of create_payment_entry_from_si.
SpecDirect == Init /\ [][NextDirect]_vars

NextRetry ==
    \/ CallStart
    \/ AttemptOk
    \/ AttemptSPAPIError
    \/ AttemptOtherError
    \/ DisableSync
    \/ Throw
    \/ EnableSync

\* Calls of call_sp_api_method, one after the other.
SpecRetry == Init /\ [][NextRetry]_vars

NextSettle ==
    \/ SettleStart
    \/ GroupsNextPage
    \/ GroupFirstEvents
    \/ ScanLine
    \/ ScanLineNoAmount
    \/ ScanEvent
    \/ EndPage
    \/ EventsNextPage
    \/ CloseGroup
    \/ ReturnNone

\* A call of check_amazon_settlement_available.
SpecSettle == Init /\ [][NextSettle]_vars

NextItems ==
    \/ GetOrderItems

\* A call of get_order_items.
SpecItems == Init /\ [][NextItems]_vars

NextLookup ==
    \/ GetItemCode

\* A call of get_item_code.
SpecLookup == Init /\ [][NextLookup]_vars

NextTaxes ==
    \/ BuildTaxes

\* The tax lines of a new Sales Order.
SpecTaxes == Init /\ [][NextTaxes]_vars

NextPayment ==
    \/ BuildPaymentEntry

\* The amounts of a new Payment Entry.
SpecPayment == Init /\ [][NextPayment]_vars

NextPaging ==
    \/ PageOrdersFirst
    \/ PageOrderExisting
    \/ PageItemsFirst
    \/ PageItemsNext
    \/ PageItemsReturn
    \/ PageOrdersNext
    \/ PageOrdersReturn
    \/ PageGroupsFirst
    \/ PageGroupsNext
    \/ PageGroupsDone
    \/ PageEventsFirst
    \/ PageEventsNext
    \/ PageGroupClose
    \/ PageScanReturn

\* One call of get_orders or of check_amazon_settlement_available against a
\* marketplace whose listings end, every call answered with a page.
SpecPaging == Init /\ [][NextPaging]_vars

\* The same with the call running on: a statement that is reached is
\* executed (one thread, no waiting on another process).
SpecPagingLive == SpecPaging /\ WF_vars(NextPaging)

NextUpdate ==
    \/ InsertSalesOrder
    \/ UpdateSalesOrder

\* The Sales Order of one order over successive get_orders passes.
SpecUpdate == Init /\ [][NextUpdate]_vars

NextOrders ==
    \/ GetOrdersStart
    \/ GetOrdersOrder
    \/ GetOrdersNextPage
    \/ GetOrdersReturn

\* A call of get_orders.
SpecOrders == Init /\ [][NextOrders]_vars

NextRuns ==
    \E r \in Runs :
        \/ RunStart(r)
        \/ RunSoLookup(r)
        \/ RunCreateLookup(r)
        \/ RunSoInsert(r)
        \/ RunBegin(r)
        \/ RunDnLookup(r)
        \/ RunDnCreate(r)
        \/ RunDnInsert(r)
        \/ RunSiLookup(r)
        \/ RunSiCreate(r)
        \/ RunSiInsert(r)
        \/ RunSettle(r)
        \/ RunPeLookup(r)
        \/ RunPeCreate(r)

\* Two runs of the get_orders loop body over one order, interleaved
\* statement by statement.
SpecRuns == Init /\ [][NextRuns]_vars

\* ------------------------------------------------- document properties

\* The Delivery Notes, Sales Invoices and Payment Entries of an order id.
dn_of(db, o) == {i \in 1..Len(db.dn) : db.dn[i].custom_against_sales_order[1] = o}
si_of(db, o) == {i \in 1..Len(db.si) : db.si[i].custom_against_sales_order[1] = o}
pe_of(db, o) ==
    {i \in 1..Len(db.pe) :
        db.si[db.pe[i].reference_no].custom_against_sales_order[1] = o}

\* C1: a pass of process_order_documents_based_on_status over an order whose
\* status is Canceled creates no Delivery Note, no Sales Invoice and no
\* Payment Entry, whatever documents exist and whatever the ERP and the
\* marketplace would answer: it does what handle_order_cancellation does and
\* stops.
C1_CanceledCreatesNothing ==
    \A o \in OrderIds : \A i \in 1..Len(so[o]) :
    \A erp \in ErpInputs, fin \in FinOutcomes, payout_acct \in BOOLEAN :
        LET order == [AmazonOrderId |-> o, OrderStatus |-> "Canceled"]
            r == process_order_documents_based_on_status(DB, order, <<o, i>>,
                                                         erp, fin, payout_acct)
        IN  /\ Len(r.db.dn) = Len(dn)
            /\ Len(r.db.si) = Len(si)
            /\ Len(r.db.pe) = Len(pe)
            /\ r.db = handle_order_cancellation(DB, o, <<o, i>>)
            /\ ~r.raised

\* A Canceled pass has acted on an order that had all three documents.
C1_Witness ==
    \E o \in OrderIds :
        /\ \E i \in dn_of(DB, o) : dn[i].docstatus = 2
        /\ \E i \in si_of(DB, o) : si[i].docstatus = 2
        /\ \E i \in pe_of(DB, o) : pe[i].docstatus = 2

\* C2: from every reachable store and for every order status, running
\* process_order_documents_based_on_status a second time on the same order
\* (same status, same ERP and marketplace answers) leaves the numbers of
\* Delivery Notes, Sales Invoices and Payment Entries of the order as they
\* were after the first run.
C2_Idempotent ==
    \A o \in OrderIds, s \in order_statuses : \A i \in 1..Len(so[o]) :
    \A dn_out \in DnAnswers(DB, s, o, TRUE), si_out \in SiAnswers(DB, s, o, TRUE) :
    \A fin \in FinAnswers(DB, s, o, TRUE, si_out) :
    \A payout_acct \in AcctAnswers(fin) :
        LET order == [AmazonOrderId |-> o, OrderStatus |-> s]
            erp == [dn |-> dn_out, si |-> si_out]
            r1 == process_order_documents_based_on_status(DB, order, <<o, i>>,
                                                          erp, fin, payout_acct)
            r2 == process_order_documents_based_on_status(r1.db, order, <<o, i>>,
                                                          erp, fin, payout_acct)
        IN  /\ Cardinality(dn_of(r2.db, o)) = Cardinality(dn_of(r1.db, o))
            /\ Cardinality(si_of(r2.db, o)) = Cardinality(si_of(r1.db, o))
            /\ Cardinality(pe_of(r2.db, o)) = Cardinality(pe_of(r1.db, o))

\* An order holds a live Delivery Note, Sales Invoice and Payment Entry, so
\* that a second run has every kind of document to duplicate.
C2_Witness ==
    \E o \in OrderIds :
        /\ \E i \in dn_of(DB, o) : dn[i].docstatus = 1
        /\ \E i \in si_of(DB, o) : si[i].docstatus = 1
        /\ \E i \in pe_of(DB, o) : pe[i].docstatus = 1

\* C3: in every state reachable through get_orders, create_sales_order and
\* process_order_documents_based_on_status, an order id has at most one
\* non-cancelled Sales Order, at most one non-cancelled Delivery Note and at
\* most one non-cancelled Sales Invoice.
C3_AtMostOneLive ==
    \A o \in OrderIds :
        /\ Cardinality({i \in 1..Len(so[o]) : so[o][i].docstatus < 2}) <= 1
        /\ Cardinality({i \in dn_of(DB, o) : dn[i].docstatus < 2}) <= 1
        /\ Cardinality({i \in si_of(DB, o) : si[i].docstatus < 2}) <= 1

\* An order whose documents were cancelled and then created again: a
\* cancelled and a live Delivery Note and Sales Invoice side by side.
C3_Witness ==
    \E o \in OrderIds :
        /\ \E i, j \in dn_of(DB, o) : dn[i].docstatus = 2 /\ dn[j].docstatus < 2
        /\ \E i, j \in si_of(DB, o) : si[i].docstatus = 2 /\ si[j].docstatus < 2

\* C4: no two Payment Entries are ever created for the same (Sales Invoice,
\* settlement id) pair, over sync passes and direct calls of
\* create_payment_entry_from_si.
C4_NoDuplicatePayment ==
    \A i, j \in 1..Len(pe) :
        (/\ pe[i].reference_no = pe[j].reference_no
         /\ pe[i].custom_amazon_settlement_id = pe[j].custom_amazon_settlement_id)
        => i = j

\* C5: in every state reachable through the sync entry points, the Sales
\* Invoice a Payment Entry references records the settlement id the Payment
\* Entry was created for.
C5_SettlementLinked ==
    \A i \in 1..Len(pe) :
        si[pe[i].reference_no].custom_amazon_settlement_id
            = pe[i].custom_amazon_settlement_id

\* A Payment Entry was created and its invoice carries a settlement id.
C5_Witness ==
    \E i \in 1..Len(pe) :
        /\ pe[i].custom_amazon_settlement_id \in SettlementIds
        /\ si[pe[i].reference_no].custom_amazon_settlement_id \in SettlementIds

\* ------------------------------------------------------ retry properties

\* The SPAPIErrors a call has observed, in order.
spapi_errors == SelectSeq(history, LAMBDA h : h.kind = "SPAPIError")

\* The description of the last occurrence of code e among the observed errors.
last_description(e) ==
    LET hits == {i \in 1..Len(spapi_errors) : spapi_errors[i].error = e}
    IN  spapi_errors[CHOOSE i \in hits : \A j \in hits : j <= i].error_description

\* The codes observed, each once, in order of first occurrence, as lines
\* "code: last description".
RECURSIVE lines_from(_, _)
lines_from(i, done) ==
    IF i > Len(spapi_errors) THEN <<>>
    ELSE IF spapi_errors[i].error \in done THEN lines_from(i + 1, done)
    ELSE <<spapi_errors[i].error \o ": " \o last_description(spapi_errors[i].error)>>
         \o lines_from(i + 1, done \cup {spapi_errors[i].error})

\* The retry budget R of the running call.
R == IF max_retry_limit = 0 THEN 1 ELSE max_retry_limit

C7_RetryBudget ==
    /\ Len(history) <= R
    /\ rpc = "returned" =>
        LET k == Len(history) IN
            /\ k >= 1 /\ k <= R
            /\ history[k].kind = "ok"
            /\ \A j \in 1..(k - 1) : history[j].kind = "SPAPIError"
            /\ result = history[k].payload
            /\ enable_sync = sync_at_start
            /\ saves = 0

\* A call has returned on its last allowed invocation after failures, with
\* enable_sync off from an earlier exhaustion.
C7_Witness ==
    /\ rpc = "returned"
    /\ Len(history) = R /\ R >= 2
    /\ enable_sync = 0

\* ------------------------------------------------- settlement properties

\* C8 as stated: once a marketplace call of the settlement scan has run out
\* of retries the scan has failed, and it makes no marketplace call after it.
C8_ExhaustionFails ==
    exhausted_at # None => (spc = "raised" /\ late_calls = 0)

\* C8 as the scan does it: running out of retries always leaves enable_sync
\* at 0; on a next-token page (of the group listing or of a group's events)
\* it fails the scan, which makes no further marketplace call; on the first
\* group listing call it is caught and the scan returns (0, None) without a
\* further call; on the first events call of a group it is caught and the
\* scan goes on with the group after it.
C8_ExhaustionByCallSite ==
    /\ exhausted_at # None => enable_sync = 0
    /\ exhausted_at \in {"groups_next", "events_next"}
        => (spc = "raised" /\ late_calls = 0)
    /\ exhausted_at = "groups_first"
        => /\ spc = "returned"
           /\ sret = [payout |-> NoPayout, sid |-> None]
           /\ fetched = {} /\ late_calls = 0
    /\ exhausted_at = "events_first"
        => /\ gi >= 2 /\ \E g \in fetched : g < gi
           /\ spc = "raised" => late_calls >= 1
           /\ spc = "returned" => (gi > Len(groups) \/ sret.sid = groups[gi])

\* The first events call of a group ran out of retries and the scan went on
\* to read the next group and returned its settlement.
C8_Witness ==
    /\ exhausted_at = "events_first"
    /\ enable_sync = 0
    /\ late_calls >= 1
    /\ spc = "returned" /\ sret.sid # None

\* C9: while a group is read and when it is returned, total is, over the
\* lines of the group that belong to the order, sum(item charges) - sum(item
\* fees) - sum(promotions) + sum(refund charge adjustments) - sum(refund fee
\* adjustments) + sum(adjustment amounts) - sum(service fees) +
\* sum(chargeback amounts); lines of other orders add nothing; and the
\* settlement id returned with it is the group's.
C9_Netting ==
    /\ spc \in {"scan", "events_next", "close"} =>
        /\ total = matched["ItemChargeList"] - matched["ItemFeeList"]
                   - matched["PromotionList"] + matched["ItemChargeAdjustmentList"]
                   - matched["ItemFeeAdjustmentList"] + matched["AdjustmentItemList"]
                   - matched["FeeList"] + matched["ChargebackAdjustmentList"]
        /\ found <=> matching_events > 0
    /\ (spc = "returned" /\ sret.sid # None) =>
        /\ sret.payout = matched["ItemChargeList"] - matched["ItemFeeList"]
                   - matched["PromotionList"] + matched["ItemChargeAdjustmentList"]
                   - matched["ItemFeeAdjustmentList"] + matched["AdjustmentItemList"]
                   - matched["FeeList"] + matched["ChargebackAdjustmentList"]
        /\ sret.sid = groups[gi]

\* Item charge 100, item fee 10 and promotion 5 of the order were read and
\* 85 was returned with the group's id.
C9_Witness ==
    /\ spc = "returned"
    /\ matched["ItemChargeList"] = 100
    /\ matched["ItemFeeList"] = 10
    /\ matched["PromotionList"] = 5
    /\ sret = [payout |-> 85, sid |-> groups[gi]]

\* C10: a settlement is returned only for the first group, in fetch order,
\* whose matched lines net to more than 0: it is returned when all pages of
\* that group are read, with that group's total alone, no group after it has
\* been fetched, and no earlier group was passed over with a positive net.
C10_FirstPositiveWins ==
    /\ (spc = "returned" /\ sret.sid # None) =>
        /\ gi \in 1..Len(groups)
        /\ sret.sid = groups[gi]
        /\ sret.payout = net_of_matched /\ sret.payout > 0
        /\ ~next_token
        /\ positives = {gi}
        /\ gi \in fetched /\ \A g \in fetched : g <= gi
    /\ ~(spc = "returned" /\ sret.sid # None) => positives = {}
    /\ spc \in {"scan", "events_next", "close"} => total = net_of_matched

\* The second group won after the first was fetched and passed over.
C10_Witness ==
    /\ spc = "returned"
    /\ Len(groups) = 2
    /\ gi = 2 /\ sret.sid = groups[2]
    /\ fetched = {1, 2}
    /\ nlines >= 2
    /\ exhausted_at = None

\* C11: a scan that returns when no group's lines of the order netted to more
\* than 0 (in particular when no event of any group carried the order id)
\* returns (0, None); and a return without settlement id carries amount 0 and
\* comes only with no group netting positive.
C11_NothingPositiveReturnsNone ==
    /\ (spc = "returned" /\ positives = {})
        => sret = [payout |-> NoPayout, sid |-> None]
    /\ (spc = "returned" /\ sret.sid = None)
        => (sret.payout = 0 /\ positives = {})

\* Both groups were read to the end, the last one held events of the order
\* that netted to nothing positive, and (0, None) was returned.
C11_Witness ==
    /\ spc = "returned"
    /\ sret = [payout |-> NoPayout, sid |-> None]
    /\ Len(groups) = 2 /\ gi = 3 /\ fetched = {1, 2}
    /\ matching_events > 0 /\ total <= 0
    /\ exhausted_at = None

\* What the settlement scan hands over for an order that is not settled.
NotSettled == [payout |-> NoPayout, sid |-> None, exc |-> "none"]

\* C12: every Payment Entry the sync creates has a paid amount > 0 and a
\* settlement id; and a pass whose settlement scan reports (0, None) creates
\* no Payment Entry and raises nothing, whatever the store, the order, its
\* status and the ERP's answers.
C12_NoPaymentUnlessPositive ==
    /\ \A i \in 1..Len(pe) :
        /\ pe[i].paid_amount > 0
        /\ pe[i].custom_amazon_settlement_id # None
    /\ \A o \in OrderIds, s \in order_statuses : \A i \in 1..Len(so[o]) :
       \A dn_out \in DnAnswers(DB, s, o, TRUE), si_out \in SiAnswers(DB, s, o, TRUE) :
       \A payout_acct \in BOOLEAN :
            LET order == [AmazonOrderId |-> o, OrderStatus |-> s]
                r == process_order_documents_based_on_status(
                        DB, order, <<o, i>>, [dn |-> dn_out, si |-> si_out],
                        NotSettled, payout_acct)
            IN  Len(r.db.pe) = Len(pe) /\ ~r.raised

\* One invoice was created on a pass that found no settlement and is without
\* Payment Entry, another was paid.
C12_Witness ==
    /\ \E i \in 1..Len(si) :
        /\ si[i].docstatus = 1 /\ si[i].custom_amazon_settlement_id = None
        /\ \A j \in 1..Len(pe) : pe[j].reference_no # i
    /\ \E j \in 1..Len(pe) : pe[j].paid_amount = 85 /\ pe[j].docstatus = 1

\* C13: when an order's live Sales Invoice carries no settlement id (no
\* settlement was available on the pass that created it) and a later pass of
\* the order, with an invoicing status, gets a positive amount and a
\* settlement id from the settlement scan, that pass creates the Payment
\* Entry.
C13_SettlementRetried ==
    \A o \in OrderIds : \A i \in 1..Len(so[o]) :
    \A s \in {"Shipped", "InvoiceUnconfirmed", "PartiallyShipped"} :
    \A g \in SettlementIds, dn_out \in ErpOutcomes :
        LET order == [AmazonOrderId |-> o, OrderStatus |-> s]
            existing_si == get_value_against_so(si, <<o, i>>)
            r == process_order_documents_based_on_status(
                    DB, order, <<o, i>>, [dn |-> dn_out, si |-> "ok"],
                    [payout |-> 85, sid |-> g, exc |-> "none"], TRUE)
        IN  (/\ existing_si # NoDoc
             /\ si[existing_si].custom_amazon_settlement_id = None
             /\ get_value_payment_entry(pe, g) = NoDoc)
            => Len(r.db.pe) = Len(pe) + 1

\* The non-cancelled Delivery Notes and Sales Invoices of an order id.
live_dn(db, o) == {i \in dn_of(db, o) : db.dn[i].docstatus < 2}
live_si(db, o) == {i \in si_of(db, o) : db.si[i].docstatus < 2}

C19_StatusGating ==
    \A o \in OrderIds, s \in order_statuses : \A i \in 1..Len(so[o]) :
    \A erp \in ErpInputs, fin \in FinOutcomes, payout_acct \in BOOLEAN :
        LET order == [AmazonOrderId |-> o, OrderStatus |-> s]
            r == process_order_documents_based_on_status(DB, order, <<o, i>>,
                                                         erp, fin, payout_acct)
        IN  /\ Len(r.db.dn) > Len(dn) => s \in {"Shipped", "PartiallyShipped"}
            /\ (Len(r.db.si) > Len(si) \/ Len(r.db.pe) > Len(pe))
                    => s \in {"Shipped", "InvoiceUnconfirmed", "PartiallyShipped"}
            /\ s \in {"PendingAvailability", "Pending", "Unshipped", "Unfulfillable"}
                    => (r.db = DB /\ ~r.raised)
            /\ s = "InvoiceUnconfirmed" => r.db.dn = dn

\* An order was invoiced and paid without a Delivery Note ever being made
\* for it, while the other order has a Sales Order and no document at all.
C19_Witness ==
    \E o, q \in OrderIds :
        /\ o # q
        /\ so[o] # <<>> /\ dn_of(DB, o) = {}
        /\ \E i \in si_of(DB, o) : si[i].docstatus = 1
        /\ \E j \in pe_of(DB, o) : pe[j].docstatus = 1
        /\ so[q] # <<>> /\ dn_of(DB, q) = {} /\ si_of(DB, q) = {}

\* --------------------------------------------------- order item properties

\* The lines of a payload whose ordered quantity is more than 0, in order.
kept_lines(items) ==
    SelectSeq(items, LAMBDA oi : "QuantityOrdered" \in DOMAIN oi /\ oi.QuantityOrdered > 0)

\* C15: when get_order_items returns, its rows are the lines of the payload
\* whose QuantityOrdered is more than 0, in payload order (every line with
\* quantity <= 0 or without quantity is dropped); each row carries the
\* ordered quantity, and its rate r satisfies r * qty = item price * qty +
\* shipping price, i.e. r = item price + shipping price / qty; item price 20,
\* shipping price 6, qty 3 gives rate 22.
C15_ItemExtraction ==
    (ipc = "done" /\ ~final_items.raised) =>
        LET kept == kept_lines(order_items)
            rows == final_items.items
        IN  /\ Len(rows) = Len(kept)
            /\ \A k \in 1..Len(rows) :
                LET price == get(kept[k], "ItemPrice", 0)
                    ship == get(kept[k], "ShippingPrice", 0)
                IN  /\ rows[k].qty = kept[k].QuantityOrdered
                    /\ rows[k].item_code = kept[k].SellerSKU
                    /\ rows[k].rate.den > 0
                    /\ rows[k].rate.num * rows[k].qty =
                            (price * rows[k].qty + ship) * rows[k].rate.den
                    /\ (price = 20 /\ ship = 6 /\ rows[k].qty = 3)
                            => rows[k].rate = [num |-> 22, den |-> 1]

\* A payload with a line of quantity 0 and the line 20 / 6 / 3 returned one
\* row, of rate 22.
C15_Witness ==
    /\ ipc = "done" /\ ~final_items.raised
    /\ Len(order_items) = 2 /\ Len(final_items.items) = 1
    /\ "QuantityOrdered" \in DOMAIN order_items[1]
    /\ order_items[1].QuantityOrdered = 0
    /\ final_items.items[1].qty = 3
    /\ final_items.items[1].amazon_shipping = 6
    /\ final_items.items[1].rate = [num |-> 22, den |-> 1]

\* ----------------------------------------------- sales order properties

\* C17: no step of the sync changes the item rows (quantities, rates) of a
\* Sales Order that is submitted.
C17_SubmittedNotMutated ==
    [][(so_docs # <<>> /\ so_docs[1].docstatus = 1)
            => so_docs'[1].items = so_docs[1].items]_vars

\* ------------------------------------------------- get_orders properties

\* C16: when the processing of an order of a page fails, get_orders does not
\* raise: it goes on with the other orders and returns.
C16_BadOrderDoesNotBlock ==
    failed_order # None => gpc \in {"running", "returned"}

\* ------------------------------------------------ overlapping run properties

\* C18: however the statements of two runs over the same order interleave,
\* the order never has two non-cancelled Sales Orders, Delivery Notes or
\* Sales Invoices, nor two non-cancelled Payment Entries for one settlement.
C18_NoDuplicatesUnderOverlap ==
    /\ Cardinality({i \in 1..Len(so[RunOrder]) : so[RunOrder][i].docstatus < 2}) <= 1
    /\ Cardinality(live_dn(DB, RunOrder)) <= 1
    /\ Cardinality(live_si(DB, RunOrder)) <= 1
    /\ \A i, j \in pe_of(DB, RunOrder) :
            (/\ pe[i].custom_amazon_settlement_id = pe[j].custom_amazon_settlement_id
             /\ pe[i].docstatus < 2 /\ pe[j].docstatus < 2) => i = j

\* The place of a step in a pass.
step_rank(step) ==
    CASE step = "refunds" -> 1
      [] step = "dn" -> 2
      [] step = "si" -> 3
      [] step = "settlement" -> 4
      [] step = "pe" -> 5

\* C20: in every pass of a run over a non-cancelled order, whatever the
\* status, the first step is the refunds step, taken before the pass reaches
\* the Delivery Note logic; the steps a pass has taken are in the order
\* refunds, Delivery Note, Sales Invoice, settlement lookup, Payment Entry,
\* each at most once.
C20_StepOrder ==
    \A r \in Runs :
        /\ \A i, j \in 1..Len(steps[r]) :
                i < j => step_rank(steps[r][i]) < step_rank(steps[r][j])
        /\ steps[r] # <<>> => steps[r][1] = "refunds"
        /\ pc[r] \in {"dn_lookup", "dn_create", "dn_insert", "si_lookup", "si_create",
                       "si_insert", "settle", "pe_lookup", "pe_create"}
                => (run_status[r] # "Canceled" /\ steps[r] # <<>>)

\* One run went through all five steps, the other, over a Pending order,
\* took the refunds step alone and is done.
C20_Witness ==
    \E r, q \in Runs :
        /\ steps[r] = <<"refunds", "dn", "si", "settlement", "pe">>
        /\ run_status[q] = "Pending" /\ pc[q] = "done" /\ steps[q] = <<"refunds">>

\* ------------------------------------------------ settlement fold properties

\* C21: the scan never fails on a matching line whose amount field is
\* missing; such a line adds 0 to total.
C21_MissingAmountIsZero == spc # "key_error"

\* --------------------------------------------------- item lookup properties

\* The rows used for lookup whose field is non-null on the line and whose
\* value finds an Item in the table.
resolving_rows(oi, maps, table) ==
    {k \in 1..Len(maps) :
        /\ maps[k].use_to_find_item_code
        /\ oi[maps[k].amazon_field] # None
        /\ get_value_item(table, maps[k].item_field, oi[maps[k].amazon_field]) # None}

\* C22: get_item_code returns the Item of the first row used for lookup
\* whose field is non-null and finds an Item, whatever rows before it found
\* nothing; it raises nothing and creates nothing then.
C22_FirstResolvingRowWins ==
    LET rows == resolving_rows(order_item, amazon_fields_map, items_before)
        k == Min(rows)
    IN  (lpc = "done" /\ rows # {}) =>
            /\ item_lookup.raised = "none"
            /\ item_lookup.item_code =
                    get_value_item(items_before, amazon_fields_map[k].item_field,
                                   order_item[amazon_fields_map[k].amazon_field])
            /\ item_table = items_before

\* C23: when no row resolves an existing Item and item creation is
\* disabled, get_item_code fails with the item-not-found error and creates
\* no Item and no Ecommerce Item.
C23_NotFoundWhenCreationDisabled ==
    (/\ lpc = "done"
     /\ ~create_item_if_not_exists
     /\ resolving_rows(order_item, amazon_fields_map, items_before) = {})
    => (/\ item_lookup.raised = "not_found"
        /\ item_table = items_before
        /\ ecommerce_items = {})

\* ------------------------------------------------------------ tax properties

\* The descriptions of the three synthesized lines.
FallbackDescriptions ==
    {"Sales Tax from Amazon", "Shipping Charge from Amazon", "Shipping Tax from Amazon"}

\* C24: the tax lines of a new Sales Order are never a mix of breakdown
\* lines and synthesized lines; a breakdown line has a non-zero amount and is
\* no Principal charge; a synthesized line has an amount > 0, is the total of
\* its kind over the item rows and appears at most once; synthesized lines
\* appear only when the financial events hold no non-zero charge other than
\* Principal and no non-zero fee, and every such charge and fee is a line
\* otherwise.
C24_TaxLinesExclusive ==
    tpc = "done" =>
        LET synthesized == {k \in 1..Len(so_taxes) :
                                so_taxes[k].description \in FallbackDescriptions}
            breakdown == (1..Len(so_taxes)) \ synthesized
            real_charges == {k \in 1..Len(fin_charges) :
                                /\ fin_charges[k].CurrencyAmount # 0
                                /\ fin_charges[k].ChargeType # "Principal"}
            real_fees == {k \in 1..Len(fin_fees) : fin_fees[k].CurrencyAmount # 0}
        IN  /\ synthesized = {} \/ breakdown = {}
            /\ \A k \in breakdown :
                    /\ so_taxes[k].tax_amount # 0
                    /\ so_taxes[k].description # "Principal"
            /\ \A k \in synthesized : so_taxes[k].tax_amount > 0
            /\ \A j, k \in synthesized :
                    so_taxes[j].description = so_taxes[k].description => j = k
            /\ synthesized # {} => (real_charges = {} /\ real_fees = {})
            /\ (taxes_charges /\ (real_charges # {} \/ real_fees # {}))
                    => Cardinality(breakdown) =
                            Cardinality(real_charges) + Cardinality(real_fees)
            /\ ~taxes_charges => so_taxes = <<>>

\* A Sales Order whose only financial line is a Principal charge got the
\* three synthesized lines.
C24_Witness ==
    /\ tpc = "done" /\ taxes_charges
    /\ Len(fin_charges) = 1 /\ fin_charges[1].ChargeType = "Principal"
    /\ fin_charges[1].CurrencyAmount = 3
    /\ Len(so_taxes) = 3
    /\ \A k \in 1..3 : so_taxes[k].description \in FallbackDescriptions


\* ------------------------------------------- document step failure properties

\* C25: whatever a document step of an order does (the Delivery Note or the
\* Sales Invoice is refused, the settlement lookup runs out of retries or
\* fails, no payout account is set for the Payment Entry), the orchestration
\* of the order does not raise.
C25_StepFailuresCaught ==
    \A o \in OrderIds : \A i \in 1..Len(so[o]) :
    \A s \in order_statuses, dn_out \in ErpOutcomes, si_out \in ErpOutcomes :
    \A fin \in FinOutcomes, amazon_payout_account \in BOOLEAN :
        LET order == [AmazonOrderId |-> o, OrderStatus |-> s]
            r == process_order_documents_based_on_status(
                    DB, order, <<o, i>>, [dn |-> dn_out, si |-> si_out], fin,
                    amazon_payout_account)
        IN  ~r.raised


\* ------------------------------------------------ per-order payment properties

\* C28: when an order with a Sales Order and no Sales Invoice is invoiced and
\* the settlement lookup returns a positive payout and settlement id g, a
\* Payment Entry is created for the new invoice, also when Payment Entries
\* with settlement id g exist for invoices of other orders.
C28_PaymentPerOrder ==
    \A o \in OrderIds : \A i \in 1..Len(so[o]) :
    \A s \in {"Shipped", "InvoiceUnconfirmed", "PartiallyShipped"} :
    \A g \in SettlementIds, dn_out \in ErpOutcomes :
        LET order == [AmazonOrderId |-> o, OrderStatus |-> s]
            r == process_order_documents_based_on_status(
                    DB, order, <<o, i>>, [dn |-> dn_out, si |-> "ok"],
                    [payout |-> 85, sid |-> g, exc |-> "none"], TRUE)
        IN  (/\ get_value_against_so(si, <<o, i>>) = NoDoc
             /\ \A k \in 1..Len(pe) :
                    pe[k].custom_amazon_settlement_id = g
                    => si[pe[k].reference_no].custom_against_sales_order[1] # o)
            => /\ Len(r.db.pe) = Len(pe) + 1
               /\ r.db.pe[Len(r.db.pe)].reference_no = Len(r.db.si)
               /\ r.db.pe[Len(r.db.pe)].custom_amazon_settlement_id = g


\* --------------------------------------------------- pass count properties

\* C29: a run of get_orders makes one pass of the orchestration over an
\* order: when the pass made for a Sales Order created in this run ends,
\* the run does not begin the orchestration of that order again.
C29_OnePassPerOrder ==
    [][\A r \in Runs :
            (run_pass[r] = 1 /\ run_pass'[r] = 2) => pc'[r] # "begin"]_vars


\* ---------------------------------------------------- sync flag properties

\* C27: from every reachable store and for every order, status, ERP answer,
\* settlement answer and payout account setting, get_orders' loop body,
\* create_sales_order, process_order_documents_based_on_status and
\* create_payment_entry_from_si leave enable_sync as it was, unless a call
\* of the settlement lookup ran out of retries, and then it is 0: nothing
\* sets it back to 1.
C27_SyncFlagFrame ==
    /\ \A o \in OrderIds, s \in order_statuses :
       \A has_items \in ItemAnswers(DB, o) :
       \A dn_out \in DnAnswers(DB, s, o, has_items),
          si_out \in SiAnswers(DB, s, o, has_items) :
       \A fin \in FinAnswers(DB, s, o, has_items, si_out) :
       \A amazon_payout_account \in AcctAnswers(fin) :
            LET order == [AmazonOrderId |-> o, OrderStatus |-> s]
                erp == [dn |-> dn_out, si |-> si_out]
                exhausted == fin.exc \in {"swallowed", "exhausted"}
                g == get_orders_one(DB, order, has_items, erp, fin,
                                    amazon_payout_account)
                c == create_sales_order(DB, order, has_items, erp, fin,
                                        amazon_payout_account)
            IN  /\ g.db.enable_sync # enable_sync
                        => (g.db.enable_sync = 0 /\ exhausted)
                /\ c.db.enable_sync # enable_sync
                        => (c.db.enable_sync = 0 /\ exhausted)
    /\ \A o \in OrderIds, s \in order_statuses :
       \A i \in 1..Len(so[o]) :
       \A dn_out \in DnAnswers(DB, s, o, TRUE), si_out \in SiAnswers(DB, s, o, TRUE) :
       \A fin \in FinAnswers(DB, s, o, TRUE, si_out) :
       \A amazon_payout_account \in AcctAnswers(fin) :
            LET order == [AmazonOrderId |-> o, OrderStatus |-> s]
                p == process_order_documents_based_on_status(
                        DB, order, <<o, i>>, [dn |-> dn_out, si |-> si_out], fin,
                        amazon_payout_account)
            IN  p.db.enable_sync # enable_sync
                    => (p.db.enable_sync = 0
                        /\ fin.exc \in {"swallowed", "exhausted"})
    /\ \A si_name \in 1..Len(si), sid \in SettlementIds :
       \A amazon_payout_account \in BOOLEAN :
            create_payment_entry_from_si(DB, si_name, 85, sid,
                                         amazon_payout_account).db.enable_sync
                = enable_sync

\* The flag was cleared by a settlement lookup whose invoice is still
\* without a settlement id, and a Payment Entry exists beside it.
C27_Witness ==
    /\ enable_sync = 0
    /\ pe # <<>>
    /\ \E i \in 1..Len(si) : si[i].custom_amazon_settlement_id = None


\* ------------------------------------------- payment entry amount properties

\* C26: on every Payment Entry create_payment_entry_from_si inserts, the
\* paid amount is the payout it was given, received amount = payout x
\* exchange rate, the amount allocated to the invoice is the received
\* amount, the currencies are the invoice's and the company's, and the
\* exchange rate is 1 when the two are the same.
C26_PaymentAmounts ==
    \A k \in 1..Len(payment_entry) :
        LET inp == pay_input
            rate == payment_entry[k].source_exchange_rate
            received == payment_entry[k].received_amount
        IN  /\ payment_entry[k].paid_amount = inp.payout_usd
            /\ received.num * inp.payout_usd.den * rate.den
                    = inp.payout_usd.num * rate.num * received.den
            /\ payment_entry[k].allocated_amount = received
            /\ payment_entry[k].paid_from_account_currency = inp.amazon_currency
            /\ payment_entry[k].received_to_account_currency = inp.company_currency
            /\ inp.amazon_currency = inp.company_currency
                    => (rate.num = 1 /\ rate.den = 1 /\ received = inp.payout_usd)
            /\ inp.amazon_currency # inp.company_currency => rate = inp.rate.rate

\* A payout of 85.5 USD paid to a company that keeps its books in PKR at a
\* rate of 280: 23940 received and allocated.
C26_Witness ==
    /\ ppc = "returned" /\ Len(payment_entry) = 1
    /\ pay_input.amazon_currency = "USD" /\ pay_input.company_currency = "PKR"
    /\ pay_input.payout_usd = [num |-> 171, den |-> 2]
    /\ payment_entry[1].source_exchange_rate = [num |-> 280, den |-> 1]
    /\ payment_entry[1].received_amount = [num |-> 23940, den |-> 1]
    /\ payment_entry[1].allocated_amount = [num |-> 23940, den |-> 1]


\* --------------------------------------------------- pagination properties

\* The tokens of the calls made for a listing and an owner, in call order.
RECURSIVE tokens_of(_, _, _)
tokens_of(log, listing, owner) ==
    IF log = <<>> THEN <<>>
    ELSE IF Head(log).listing = listing /\ Head(log).owner = owner
    THEN <<Head(log).token>> \o tokens_of(Tail(log), listing, owner)
    ELSE tokens_of(Tail(log), listing, owner)

\* The calls that read a listing of n pages once, in token order: the first
\* call without token, then the tokens 2..n.
token_chain(n) == [k \in 1..n |-> IF k = 1 THEN 0 ELSE k]

\* s is an initial part of t.
is_prefix(s, t) == Len(s) <= Len(t) /\ s = SubSeq(t, 1, Len(s))

\* Every listing is called page by page in token order, no page twice; the
\* groups list holds the groups of the pages in fetch order; and when the
\* call returns, every listing it began was read to its last page.
PagesOnceInOrder ==
    /\ \A l \in Listings, w \in 0..MaxPages :
        is_prefix(tokens_of(requests, l, w), token_chain(market[l]))
    /\ is_prefix(acc_groups, [k \in 1..MaxPages |-> k])
    /\ Len(acc_groups) = Len(tokens_of(requests, "groups", 0))
    /\ qpc = "returned" =>
        \A l \in Listings, w \in 0..MaxPages :
            tokens_of(requests, l, w) \in {<<>>, token_chain(market[l])}

==========================================================================
